---- MODULE Spec2Model ----
(***************************************************************************)
(* Leave tracker: the balance ledger, the cascade consumption planner and  *)
(* the request lifecycle of src/services/leaveService.js, with the         *)
(* database (MySQL through Sequelize) as the shared state.                 *)
(*                                                                         *)
(* Day quantities are integers (whole working days).  One leave year is    *)
(* modelled, so a balance row is keyed by <<employee id, leave type id>>.  *)
(***************************************************************************)
EXTENDS Integers, Sequences, FiniteSets, TLC

VARIABLES
    balances,   \* table leave_balances: committed rows, key -> row
    requests,   \* table leave_requests: committed rows, id -> row
    nextId,     \* AUTO_INCREMENT counter of leave_requests
    held,       \* the preview responses clients hold in an open form
    procs,      \* the HTTP handlers: the call each runs, or what its last call returned
    logs,       \* table leave_entitlement_logs: committed rows, in insertion order
    outbox,     \* the notifications the route handlers have dispatched, oldest first
    probe,      \* the dates last submitted or computed with: the arguments, the clock, the result
    calls,      \* service calls made so far
    own,        \* history: net change each request's calls made to each balance row
    pre         \* history: the committed tables when the running call started

vars == <<balances, requests, nextId, held, procs, logs, outbox, probe, calls, own, pre>>

(***************************** bounds **************************************)
MaxRequests == 2    \* leave_requests rows that may be inserted
MaxDays == 2        \* working days of the longest requested span
MaxHeld == 1        \* preview responses held by clients at one time
MaxSeqCalls == 5     \* service calls made while one handler serves them in turn
MaxPlanDays == 5    \* working days of the longest span the planner is asked about
MaxEntitled == 2    \* entitled_days of the rows the planner is asked about
MaxCalls == 3       \* service calls made while handlers interleave
MaxAdminCalls == 4  \* service calls made while entitlements are changed as well
MaxSpanDay == 15    \* last day (counted from a Sunday) a requested span may touch
MaxTenure == 7      \* years between the earliest join date tried and the current year
MaxRebalanceCalls == 4  \* service calls made while entitlements are rebalanced as well
MaxEntitleCalls == 3    \* entitlement calls made while handlers interleave
MaxApplyCalls == 2      \* forms with dates submitted
MaxFormDay == 7         \* last day (counted from a Sunday) a submitted form may name
MaxNotifyCalls == 4     \* service calls made while the routes notify
MaxUsedCalls == 4       \* create and approve calls made while handlers interleave
MaxTxCalls == 4         \* calls made while transactions interleave
MaxTxDays == 3          \* working days of the longest span planned while transactions interleave

(************************** directory data *********************************)
NULL == "null"
Employees == {"e1", "e2"}
Admins == {"admin"}
Procs == {"h1", "h2"}
\* The inputs tried: who takes leave, and the primary leave types chosen
\* (a cascading type first in the priority list, one later in it, a standalone one).
Applicants == {"e1"}
PrimaryChoices == {"lt1", "lt2", "lt4"}
\* The entitlement changes tried: for one employee, for two in one call (the
\* applicant last), on a bucket with others before and after it in the cascade.
EmployeeLists == {<<"e1">>, <<"e2", "e1">>}
EntitledTypes == {"lt2"}

\* Rows of table leave_types, in id order (all active).
LeaveTypes ==
    << [id |-> "lt1", name |-> "Casual",       default_days |-> 2],
       [id |-> "lt2", name |-> "Sick",         default_days |-> 1],
       [id |-> "lt3", name |-> "Flex",         default_days |-> 0],
       [id |-> "lt4", name |-> "Paid Leave",   default_days |-> 1],
       [id |-> "lt5", name |-> "Unpaid Leave", default_days |-> 0] >>

TypeIds == {LeaveTypes[i].id : i \in 1..Len(LeaveTypes)}
Keys == Employees \X TypeIds
RequestIds == 1..MaxRequests

\* Faulty variant: Sick is walked before Casual.
SickBeforeCasual == <<"Sick", "Casual", "Flex", "Unpaid Leave">>

LEAVE_TYPE_PRIORITY == <<"Casual", "Sick", "Flex", "Unpaid Leave">>
STANDALONE_LEAVE_TYPES == <<"Paid Leave", "Unpaid Leave">>

\* String.prototype.toLowerCase on the names that occur.
toLowerCase(s) ==
    CASE s = "Casual" -> "casual"
      [] s = "Sick" -> "sick"
      [] s = "Flex" -> "flex"
      [] s = "Paid Leave" -> "paid leave"
      [] s = "Unpaid Leave" -> "unpaid leave"
      [] OTHER -> s

Max(a, b) == IF a >= b THEN a ELSE b
Min(a, b) == IF a <= b THEN a ELSE b

\* LeaveType.findByPk, for the id of a row of leave_types
findLeaveType(id) ==
    LeaveTypes[CHOOSE i \in 1..Len(LeaveTypes) : LeaveTypes[i].id = id]

(***************************** ledger **************************************)
\* LeaveBalance.prototype.getAvailableDays
getAvailableDays(b) == b.entitled_days - b.used_days - b.pending_days

\* Faulty variant: a new row is not seeded with the type's default_days.
unseededBalance(leaveTypeId) ==
    [entitled_days |-> 0, used_days |-> 0, pending_days |-> 0]

\* The row getOrCreateBalance inserts when none exists.
NewBalance(leaveTypeId) ==
    [entitled_days |-> IF leaveTypeId \in TypeIds
                       THEN findLeaveType(leaveTypeId).default_days
                       ELSE 0,
     used_days |-> 0,
     pending_days |-> 0]

\* Faulty variant: the balance check lets every request through.
alwaysApply(b, totalDays) == TRUE

\* canApplyLeave(...).canApply
canApply(b, totalDays) == getAvailableDays(b) >= totalDays

\* Faulty variants of the ledger writes, to test that the properties notice them.
UseWithoutRelease(b, days) ==
    [pending_days |-> b.pending_days, used_days |-> b.used_days + days]
ReleaseNothing(b, days) == [pending_days |-> b.pending_days]
ReserveTwice(b, days) == [pending_days |-> b.pending_days + 2 * days]

\* The fields each lifecycle call writes to a balance row it has read.
DebitPending(b, days) == [pending_days |-> b.pending_days + days]
MovePendingToUsed(b, days) ==
    [pending_days |-> Max(0, b.pending_days - days),
     used_days |-> b.used_days + days]
ReleasePending(b, days) == [pending_days |-> Max(0, b.pending_days - days)]
\* Faulty variant: a historic import books the days as pending.
addPending(b, days) == [pending_days |-> b.pending_days + days]

AddUsed(b, days) == [used_days |-> b.used_days + days]

\* Faulty variant: removeEntitlement has no floor.
neverBelowFloor(b, days) == FALSE

\* removeEntitlement: newEntitled < minRequired, and newEntitled < 0.
belowFloor(b, days) == b.entitled_days - days < b.used_days + b.pending_days
belowZero(b, days) == b.entitled_days - days < 0

\* Faulty variant: removeEntitlement writes the entitlement it read.
RemoveNothing(b, days) == [entitled_days |-> b.entitled_days]

\* The entitled_days addEntitlement and removeEntitlement write.
AddEntitled(b, days) == [entitled_days |-> b.entitled_days + days]
RemoveEntitled(b, days) == [entitled_days |-> b.entitled_days - days]

\* UPDATE ... SET <fields> on a row.
ApplyFields(row, f) ==
    [x \in DOMAIN row |-> IF x \in DOMAIN f THEN f[x] ELSE row[x]]

(****************************** dates **************************************)
\* A calendar date is [year, month, date] with month 0..11 as Date.getMonth
\* gives it; a Date object is kept as the wall clock of the server's zone,
\* [year, month, date, minute].  The dates of a requested span are counted in
\* days from a Sunday instead, and their Date objects in minutes from that
\* Sunday's midnight UTC.
\*
\* UTC offsets, in minutes, of the zones the server's clock is set to: UTC
\* (the node:20-alpine image sets no zone) and Asia/Kolkata (the zone the
\* holiday scheduler is given).  Neither has daylight saving time.
TzMinutes == {0, 330}
MinutesPerDay == 1440
CurrentYear == 2026

\* The days a requested span may start and end on.
SpanDays == 0..MaxSpanDay

\* new Date('YYYY-MM-DD') of day n of a span: midnight UTC of that day.
parseDay(n) == n * MinutesPerDay

\* Faulty variant: the week is numbered from Monday.
mondayFirst(t, tz) == (((t + tz) \div MinutesPerDay) + 6) % 7

\* Date.prototype.getDay on a clock tz minutes ahead of UTC (0 is Sunday).
getDay(t, tz) == ((t + tz) \div MinutesPerDay) % 7

\* The loop of calculateWorkingDays; setDate(getDate() + 1) moves the wall
\* clock one day on.
RECURSIVE countWorkingDays(_, _, _, _)
countWorkingDays(current, end, tz, count) ==
    IF current <= end
    THEN countWorkingDays(current + MinutesPerDay, end, tz,
                          IF getDay(current, tz) # 0 /\ getDay(current, tz) # 6
                          THEN count + 1 ELSE count)
    ELSE count

\* calculateWorkingDays(startDate, endDate) of utils/dateUtils.js
calculateWorkingDays(startDate, endDate, tz) ==
    countWorkingDays(parseDay(startDate), parseDay(endDate), tz, 0)

isLeapYear(year) == (year % 4 = 0 /\ year % 100 # 0) \/ year % 400 = 0

DaysInMonth(year, month) ==
    IF month = 1 THEN (IF isLeapYear(year) THEN 29 ELSE 28)
    ELSE IF month \in {3, 5, 8, 10} THEN 30
    ELSE 31

\* new Date(year, month, date): local midnight; a month past December and a
\* date past the end of the month run over into the next one.
newDate(year, month, date) ==
    LET y == year + month \div 12
        m == month % 12
        n == DaysInMonth(y, m)
    IN  IF date <= n THEN [year |-> y, month |-> m, date |-> date, minute |-> 0]
        ELSE IF m = 11
        THEN [year |-> y + 1, month |-> 0, date |-> date - n, minute |-> 0]
        ELSE [year |-> y, month |-> m + 1, date |-> date - n, minute |-> 0]

\* The day before a calendar date.
dayBefore(d) ==
    IF d.date > 1 THEN [year |-> d.year, month |-> d.month, date |-> d.date - 1]
    ELSE IF d.month > 0
    THEN [year |-> d.year, month |-> d.month - 1,
          date |-> DaysInMonth(d.year, d.month - 1)]
    ELSE [year |-> d.year - 1, month |-> 11, date |-> 31]

\* new Date('YYYY-MM-DD') read on a clock tz minutes ahead of UTC: midnight
\* UTC of that date.
parseDate(d, tz) ==
    IF tz >= 0
    THEN [year |-> d.year, month |-> d.month, date |-> d.date, minute |-> tz]
    ELSE LET b == dayBefore(d)
         IN  [year |-> b.year, month |-> b.month, date |-> b.date,
              minute |-> MinutesPerDay + tz]

\* Date.prototype.setMonth keeps the date and the time of day.
setMonth(d, month) == [newDate(d.year, month, d.date) EXCEPT !.minute = d.minute]

\* Faulty variant: the anniversary is never found to be still ahead.
neverEarlier(a, b) == FALSE

\* a < b for two Date objects on the same clock.
earlier(a, b) ==
    \/ a.year < b.year
    \/ a.year = b.year /\ a.month < b.month
    \/ a.year = b.year /\ a.month = b.month /\ a.date < b.date
    \/ a.year = b.year /\ a.month = b.month /\ a.date = b.date /\ a.minute < b.minute

\* A join_date column that is NULL.
NoDate == [year |-> 0, month |-> 0, date |-> 0]

\* calculateTenureBasedVacation(joinDate), with now the value of new Date().
calculateTenureBasedVacation(joinDate, now, tz) ==
    IF joinDate = NoDate THEN 7
    ELSE LET join == parseDate(joinDate, tz)
             thisYearAnniversary == newDate(now.year, join.month, join.date)
             yearsOfService ==
                 Max(0, IF earlier(now, thisYearAnniversary)
                        THEN now.year - join.year - 1
                        ELSE now.year - join.year)
         IN  IF yearsOfService >= 5 THEN 18
             ELSE IF yearsOfService >= 2 THEN 14
             ELSE 7

\* Math.round(x * 2) for x = (defaultDays / 12) * months: the doubles involved
\* round as the exact quotient does, halves upwards.
roundHalves(defaultDays, months) == (defaultDays * months + 3) \div 6

\* calculateProRataEntitlement(defaultDays, joinDate, probationMonths), with
\* year the value of getCurrentYear().  The value returned is a number of
\* half days: the code returns Math.round(proRataDays * 2) / 2.
calculateProRataEntitlement(defaultDays, joinDate, probationMonths, year, tz) ==
    LET join == parseDate(joinDate, tz)
        yearEnd == newDate(year, 11, 31)
        probationEndDate == setMonth(join, join.month + probationMonths)
        remainingMonths == (yearEnd.month - probationEndDate.month)
                           + (yearEnd.year - probationEndDate.year) * 12 + 1
    IN  IF earlier(yearEnd, probationEndDate) THEN 0
        ELSE roundHalves(defaultDays, Max(0, remainingMonths))

(************************ entitlement policy *******************************)
\* Rows of table employees, in id order (all active): one on probation who
\* joined a month ago, one in the fourth year of service.
EmployeeRows ==
    << [id |-> "e1", status |-> "Probation",
        join_date |-> [year |-> CurrentYear, month |-> 9, date |-> 5]],
       [id |-> "e2", status |-> "Active",
        join_date |-> [year |-> CurrentYear - 3, month |-> 2, date |-> 10]] >>

\* new Date() while the entitlements are rebalanced.
Today == [year |-> CurrentYear, month |-> 10, date |-> 4, minute |-> 600]

\* name.toLowerCase().includes(...) on the names that occur.
isVacationName(name) == toLowerCase(name) \in {"vacation", "casual", "annual"}
isFlexName(name) == toLowerCase(name) = "flex"

\* leaveTypes.find(...): the id of the first row among hits, else none.
findTypeId(hits) ==
    IF hits = {} THEN NULL
    ELSE LeaveTypes[CHOOSE i \in hits : \A h \in hits : i <= h].id

vacationType ==
    findTypeId({i \in 1..Len(LeaveTypes) : isVacationName(LeaveTypes[i].name)})
flexType ==
    findTypeId({i \in 1..Len(LeaveTypes) : isFlexName(LeaveTypes[i].name)})

\* The policy value of each bucket, in whole days (the pro-rata values of the
\* employees above are whole).
correctVacationDays(employee, now, tz) ==
    LET tenure == calculateTenureBasedVacation(employee.join_date, now, tz)
    IN  IF employee.status = "Probation" /\ employee.join_date # NoDate
        THEN calculateProRataEntitlement(tenure, employee.join_date, 3, CurrentYear, tz) \div 2
        ELSE tenure

correctFlexDays(employee, tz) ==
    IF employee.status = "Probation" /\ employee.join_date # NoDate
    THEN calculateProRataEntitlement(3, employee.join_date, 3, CurrentYear, tz) \div 2
    ELSE 3

\* Faulty variants: the policy value is added to what the row has; the row's
\* commitments are not looked at.
toppedUp(b, correctDays) == b.entitled_days + correctDays
policyOnly(b, correctDays) == correctDays

\* newVacationDays / newFlexDays: Math.max(correct, used + pending).
rebalancedDays(b, correctDays) == Max(correctDays, b.used_days + b.pending_days)

\* Math.abs(current - newDays) > 0.01, on whole days.
differs(current, newDays) == current # newDays

(***************************** planner *************************************)
\* Faulty variant: no leave type is treated as standalone.
neverStandalone(name) == FALSE

isStandaloneName(name) ==
    \E i \in 1..Len(STANDALONE_LEAVE_TYPES) :
        toLowerCase(STANDALONE_LEAVE_TYPES[i]) = toLowerCase(name)

\* The cascade list: the primary type, then the priority names that are
\* neither 'Unpaid Leave' nor standalone nor the primary type.
RECURSIVE priorityTypes(_, _)
priorityTypes(i, primaryLeaveTypeId) ==
    IF i > Len(LEAVE_TYPE_PRIORITY) THEN <<>>
    ELSE LET priorityName == LEAVE_TYPE_PRIORITY[i]
             hits == {j \in 1..Len(LeaveTypes) :
                        /\ toLowerCase(LeaveTypes[j].name) = toLowerCase(priorityName)
                        /\ LeaveTypes[j].id # primaryLeaveTypeId}
             rest == priorityTypes(i + 1, primaryLeaveTypeId)
         IN  IF priorityName = "Unpaid Leave" \/ isStandaloneName(priorityName) \/ hits = {}
             THEN rest
             ELSE <<LeaveTypes[CHOOSE j \in hits : \A h \in hits : j <= h]>> \o rest

sortedTypes(primaryType) == <<primaryType>> \o priorityTypes(1, primaryType.id)

\* The consumption loop over the cascade list; avail maps a leave type id to
\* the available days getEmployeeBalances reported.
RECURSIVE consume(_, _, _, _, _, _)
consume(types, i, avail, remainingDays, totalEntitled, breakdown) ==
    IF i > Len(types) \/ remainingDays <= 0
    THEN [breakdown |-> breakdown, remainingDays |-> remainingDays,
          totalEntitled |-> totalEntitled]
    ELSE LET leaveType == types[i]
             available == avail[leaveType.id]
             isFirstType == (i = 1)
             daysToConsume == Min(remainingDays, available)
         IN  IF available > 0
             THEN consume(types, i + 1, avail, remainingDays - daysToConsume,
                          totalEntitled + available,
                          Append(breakdown,
                                 [leaveTypeId |-> leaveType.id,
                                  leaveTypeName |-> leaveType.name,
                                  days |-> daysToConsume,
                                  isUnpaid |-> FALSE,
                                  available |-> available,
                                  isPrimary |-> isFirstType,
                                  noBalance |-> FALSE]))
             ELSE IF isFirstType
             THEN consume(types, i + 1, avail, remainingDays,
                          totalEntitled + available,
                          Append(breakdown,
                                 [leaveTypeId |-> leaveType.id,
                                  leaveTypeName |-> leaveType.name,
                                  days |-> 0,
                                  isUnpaid |-> FALSE,
                                  available |-> 0,
                                  isPrimary |-> TRUE,
                                  noBalance |-> TRUE]))
             ELSE consume(types, i + 1, avail, remainingDays,
                          totalEntitled + available, breakdown)

\* The entry that records the days no bucket could pay for.
unpaidEntry(unpaidDays) ==
    LET hits == {j \in 1..Len(LeaveTypes) : LeaveTypes[j].name = "Unpaid Leave"}
    IN  [leaveTypeId |-> IF hits = {} THEN NULL
                         ELSE LeaveTypes[CHOOSE j \in hits : TRUE].id,
         leaveTypeName |-> "Unpaid Leave",
         days |-> unpaidDays,
         isUnpaid |-> TRUE,
         available |-> 0,
         isPrimary |-> FALSE,
         noBalance |-> FALSE]

\* Faulty variant: only unpaid days count as an overflow.
onlyUnpaid(unpaidDays, breakdown) == unpaidDays > 0

\* hasOverflow of the cascade's result.
hasOverflow(unpaidDays, breakdown) == unpaidDays > 0 \/ Len(breakdown) > 1

\* calculateSmartBalanceConsumption once the active leave types and the
\* employee's balances have been read (primaryLeaveTypeId is a known type).
calculateSmartBalanceConsumption(avail, primaryLeaveTypeId, totalDays) ==
    LET primaryType == findLeaveType(primaryLeaveTypeId)
    IN  IF isStandaloneName(primaryType.name)
        THEN LET available == avail[primaryType.id]
                 daysToConsume == Min(totalDays, available)
                 shortage == totalDays - daysToConsume
                 breakdown ==
                     IF daysToConsume > 0
                     THEN << [leaveTypeId |-> primaryType.id,
                              leaveTypeName |-> primaryType.name,
                              days |-> daysToConsume,
                              isUnpaid |-> FALSE,
                              available |-> available,
                              isPrimary |-> FALSE,
                              noBalance |-> FALSE] >>
                     ELSE <<>>
             IN  [breakdown |-> breakdown,
                  hasOverflow |-> FALSE,
                  unpaidDays |-> 0,
                  totalEntitled |-> available,
                  totalRequested |-> totalDays,
                  primaryLeaveType |-> primaryType.name,
                  insufficientBalance |-> shortage > 0,
                  shortage |-> IF shortage > 0 THEN shortage ELSE 0]
        ELSE LET walked == consume(sortedTypes(primaryType), 1, avail, totalDays, 0, <<>>)
                 unpaidDays == walked.remainingDays
                 breakdown ==
                     IF unpaidDays > 0
                     THEN Append(walked.breakdown, unpaidEntry(unpaidDays))
                     ELSE walked.breakdown
             IN  [breakdown |-> breakdown,
                  hasOverflow |-> hasOverflow(unpaidDays, breakdown),
                  unpaidDays |-> unpaidDays,
                  totalEntitled |-> walked.totalEntitled,
                  totalRequested |-> totalDays,
                  primaryLeaveType |-> primaryType.name,
                  insufficientBalance |-> FALSE,
                  shortage |-> 0]

(************************ requests and handlers ****************************)
Terminal == {"approved", "rejected", "cancelled"}

Item(leaveTypeId, days) == [leaveTypeId |-> leaveTypeId, days |-> days]

\* The breakdown entries a lifecycle loop acts on: !item.isUnpaid && item.leaveTypeId
debitable(breakdown) ==
    LET keep(it) == ~it.isUnpaid /\ it.leaveTypeId # NULL
        kept == SelectSeq(breakdown, keep)
    IN  [i \in 1..Len(kept) |-> Item(kept[i].leaveTypeId, kept[i].days)]

\* Faulty variant: approve, reject and cancel always take the single-type
\* branch.
wholeRequest(request) == <<Item(request.leave_type_id, request.total_days)>>

\* Faulty variant: the buckets are planned again from the balances of the moment.
replanned(request) ==
    LET avail == [id \in TypeIds |->
                    IF <<request.employee_id, id>> \in DOMAIN balances
                    THEN getAvailableDays(balances[<<request.employee_id, id>>])
                    ELSE 0]
    IN  debitable(calculateSmartBalanceConsumption(avail, request.leave_type_id,
                                                   request.total_days).breakdown)

\* The buckets approve, reject and cancel adjust for a request row: the stored
\* breakdown of a multi-type request, else the request's own type and total_days.
\* balance_breakdown is <<>> for SQL NULL and <<b>> for the JSON array b.
requestItems(request) ==
    IF request.is_multi_type /\ request.balance_breakdown # <<>>
    THEN debitable(request.balance_breakdown[1])
    ELSE <<Item(request.leave_type_id, request.total_days)>>

\* unpaid_days as the creating calls compute it: confirmedBreakdown.find(b => b.isUnpaid)
unpaidDaysOf(breakdown) ==
    LET hits == {i \in 1..Len(breakdown) : breakdown[i].isUnpaid}
    IN  IF hits = {} THEN 0
        ELSE breakdown[CHOOSE i \in hits : \A h \in hits : i <= h].days

ZeroRow == [entitled_days |-> 0, used_days |-> 0, pending_days |-> 0]

IdleProc ==
    [pc |-> "idle", op |-> "none", employeeId |-> NULL, leaveTypeId |-> NULL,
     totalDays |-> 0, by |-> NULL, req |-> 0, owner |-> NULL, phase |-> "none",
     employeeIds |-> <<>>, items |-> <<>>, idx |-> 0, bal |-> ZeroRow,
     txb |-> <<>>, txr |-> <<>>, processed |-> 0, errors |-> <<>>,
     result |-> "none"]

\* A handler that has returned or thrown: its transaction is over (a thrown
\* error rolled it back); which call it was, for whom, on which request, how
\* far its loop got, what it counted and what it answered stay visible until
\* the handler serves its next call.
Done(pr, res) ==
    [IdleProc EXCEPT !.pc = "done", !.op = pr.op, !.employeeId = pr.employeeId,
                     !.req = pr.req, !.idx = pr.idx, !.processed = pr.processed,
                     !.errors = pr.errors, !.result = res]

\* Faulty variant: the error is thrown on without transaction.rollback(), and
\* the transaction keeps its row locks.
throwOnly(pr, res) == [Done(pr, res) EXCEPT !.txb = pr.txb, !.txr = pr.txr]

\* catch (error) { await transaction.rollback(); throw error; }
rollback(pr, res) == Done(pr, res)

\* Faulty variant: no call runs its statements in a transaction.
noTransaction(op) == FALSE

\* The calls that pass { transaction } to their statements; createLeaveRequest
\* opens none.
inTransaction(op) == op # "create"

Running(p) == procs[p].pc \notin {"idle", "done"}
NoneRunning == \A q \in Procs : ~Running(q)

\* Row locks of the open transactions of the other handlers.
BalLocked(p, k) ==
    \E q \in Procs \ {p} : \E i \in 1..Len(procs[q].txb) : procs[q].txb[i].key = k
ReqLocked(p, r) ==
    \E q \in Procs \ {p} : \E i \in 1..Len(procs[q].txr) : procs[q].txr[i].id = r

CurKey(pr) == <<pr.owner, pr.items[pr.idx].leaveTypeId>>

\* After the loop body of item idx: the next item, else the statement after the loop.
Advance(pr) ==
    IF pr.idx < Len(pr.items)
    THEN [pr EXCEPT !.pc = "find", !.idx = pr.idx + 1]
    ELSE IF pr.op \in {"approve", "reject", "cancel"}
    THEN [pr EXCEPT !.pc = "requpd"]
    ELSE [pr EXCEPT !.pc = "commit"]

\* Entering a loop over items: its first findOne, or past the loop when empty.
EnterLoop(pr) ==
    IF pr.items = <<>>
    THEN Advance([pr EXCEPT !.idx = 0])
    ELSE [pr EXCEPT !.pc = "find", !.idx = 1]

Entitlements == {"add", "remove"}

\* getOrCreateBalance has returned row to its caller.
Found(pr, row) ==
    IF pr.op = "create" /\ pr.phase = "check"
    THEN IF canApply(row, pr.totalDays)
         THEN [pr EXCEPT !.pc = "insert"]
         ELSE Done(pr, "insufficient-balance")
    ELSE IF pr.op \in Entitlements
    THEN [pr EXCEPT !.pc = "entitle", !.bal = row]
    ELSE IF pr.op = "rebalance"
    THEN [pr EXCEPT !.pc = "rebalance", !.bal = row]
    ELSE [pr EXCEPT !.pc = "update", !.bal = row]

\* rebalanceAllEntitlements: the result it returns, the bucket after the
\* current one, and the catch around an employee's buckets (the error is
\* recorded and the loop goes on with the next employee).  totalDays counts
\* results.changes, processed is results.processed and errors holds the
\* employeeId of each entry of results.errors.
Rebalanced(pr) == Done(pr, IF pr.totalDays = 0 THEN "no-changes" ELSE "changes")

ToBucket(pr, i) ==
    [pr EXCEPT !.pc = "find", !.idx = i, !.owner = pr.employeeIds[i],
               !.leaveTypeId = pr.items[i].leaveTypeId]

\* The first bucket of the employee after the current one, 0 when the current
\* employee is the last.
nextEmployee(pr) ==
    LET later == {i \in (pr.idx + 1)..Len(pr.items) : pr.employeeIds[i] # pr.owner}
    IN  IF later = {} THEN 0 ELSE CHOOSE i \in later : \A j \in later : i <= j

\* results.processed++ closes the try block of an employee.
NextBucket(pr) ==
    IF pr.idx < Len(pr.items) /\ pr.employeeIds[pr.idx + 1] = pr.owner
    THEN ToBucket(pr, pr.idx + 1)
    ELSE LET counted == [pr EXCEPT !.processed = @ + 1]
         IN  IF pr.idx < Len(pr.items) THEN ToBucket(counted, pr.idx + 1)
             ELSE Rebalanced(counted)

\* Faulty variant: the error leaves the loop.
Rethrown(pr) == Done([pr EXCEPT !.errors = Append(@, pr.owner)], "error")

\* catch (error) { results.errors.push({ employeeId: employee.id, ... }) }
Caught(pr) ==
    LET recorded == [pr EXCEPT !.errors = Append(@, pr.owner)]
    IN  IF nextEmployee(pr) = 0 THEN Rebalanced(recorded)
        ELSE ToBucket(recorded, nextEmployee(pr))

\* Creating calls that will still insert a leave_requests row.
InsertsPending ==
    Cardinality({q \in Procs : /\ procs[q].op = "create"
                               /\ procs[q].phase = "check"
                               /\ Running(q)})

(**************************** request rows *********************************)
\* The row createLeaveRequest inserts.
SingleTypeRow(pr) ==
    [employee_id |-> pr.employeeId, leave_type_id |-> pr.leaveTypeId,
     total_days |-> pr.totalDays, status |-> "pending",
     requested_by |-> IF pr.by = NULL THEN pr.employeeId ELSE pr.by,
     approved_by |-> NULL, admin_remarks |-> NULL,
     is_historic |-> FALSE, is_multi_type |-> FALSE,
     balance_breakdown |-> <<>>, unpaid_days |-> 0]

\* The row createLeaveRequestWithSmartConsumption inserts.
SmartRow(form, requestedBy, confirmedBreakdown) ==
    [employee_id |-> form.employeeId, leave_type_id |-> form.leaveTypeId,
     total_days |-> form.totalDays, status |-> "pending",
     requested_by |-> requestedBy,
     approved_by |-> NULL, admin_remarks |-> NULL,
     is_historic |-> FALSE, is_multi_type |-> Len(confirmedBreakdown) > 1,
     balance_breakdown |-> <<confirmedBreakdown>>,
     unpaid_days |-> unpaidDaysOf(confirmedBreakdown)]

\* The row createHistoricLeaveRequest inserts.
HistoricRow(form, requestedBy, confirmedBreakdown) ==
    [employee_id |-> form.employeeId, leave_type_id |-> form.leaveTypeId,
     total_days |-> form.totalDays, status |-> "approved",
     requested_by |-> requestedBy,
     approved_by |-> requestedBy, admin_remarks |-> "Historic leave import",
     is_historic |-> TRUE, is_multi_type |-> Len(confirmedBreakdown) > 1,
     balance_breakdown |-> <<confirmedBreakdown>>,
     unpaid_days |-> unpaidDaysOf(confirmedBreakdown)]

\* The fields request.update writes at the end of approve, reject and cancel.
StatusFields(pr) ==
    CASE pr.op = "approve" ->
           [status |-> "approved", approved_by |-> pr.by, admin_remarks |-> "remarks"]
      [] pr.op = "reject" ->
           [status |-> "rejected", approved_by |-> pr.by, admin_remarks |-> "remarks"]
      [] OTHER -> [status |-> "cancelled"]

\* The fields balance.update writes for the current item of each lifecycle call.
BalanceFields(pr) ==
    LET days == pr.items[pr.idx].days
    IN  CASE pr.op \in {"create", "smart"} -> DebitPending(pr.bal, days)
          [] pr.op = "approve" -> MovePendingToUsed(pr.bal, days)
          [] pr.op = "historic" -> AddUsed(pr.bal, days)
          [] OTHER -> ReleasePending(pr.bal, days)

\* Faulty variant: the status precondition lets every request through.
anyStatus(request) == TRUE

\* The status precondition of approve, reject and cancel.
isPending(request) == request.status = "pending"

\* Faulty variant: anybody may cancel a request.
anyEmployee(request, employeeId) == TRUE

\* The ownership precondition of cancel.
isOwner(request, employeeId) == request.employee_id = employeeId

\* The committed tables with a transaction's buffered writes applied.
CommitBalances(bals, txb) ==
    [k \in DOMAIN bals |->
        LET w == {i \in 1..Len(txb) : txb[i].key = k}
        IN  IF w = {} THEN bals[k]
            ELSE ApplyFields(bals[k], txb[CHOOSE i \in w : \A j \in w : j <= i].fields)]
CommitRequests(reqs, txr) ==
    IF txr = <<>> THEN reqs
    ELSE LET w == txr[1]
         IN  IF w.id \in DOMAIN reqs
             THEN [reqs EXCEPT ![w.id] = ApplyFields(@, w.fields)]
             ELSE [r \in DOMAIN reqs \cup {w.id} |->
                      IF r = w.id THEN w.fields ELSE reqs[r]]

\* A second write of one transaction to a row it already wrote replaces the fields.
BufferWrite(txb, k, f) ==
    LET w == {i \in 1..Len(txb) : txb[i].key = k}
    IN  IF w = {} THEN Append(txb, [key |-> k, fields |-> f])
        ELSE [i \in 1..Len(txb) |->
                IF i \in w THEN [key |-> k, fields |-> f @@ txb[i].fields]
                ELSE txb[i]]

(******************************* actions ***********************************)
\* createLeaveRequest up to its first query (canApplyLeave's findOne).
StartCreate(p, e, t, d, by) ==
    /\ ~Running(p)
    /\ nextId + InsertsPending <= MaxRequests
    /\ LET pr == [IdleProc EXCEPT !.op = "create", !.employeeId = e, !.leaveTypeId = t,
                                  !.totalDays = d, !.by = by, !.owner = e,
                                  !.phase = "check", !.items = <<Item(t, d)>>, !.idx = 1]
           k == CurKey(pr)
       IN  procs' = [procs EXCEPT ![p] =
                        IF k \in DOMAIN balances THEN Found(pr, balances[k])
                        ELSE [pr EXCEPT !.pc = "newbal"]]
    /\ UNCHANGED <<balances, requests, nextId, held>>

\* getOrCreateBalance: LeaveBalance.findOne and what follows it.
FindBalance(p) ==
    /\ procs[p].pc = "find"
    /\ LET pr == procs[p]
           k == CurKey(pr)
       IN  procs' = [procs EXCEPT ![p] =
                        IF k \in DOMAIN balances THEN Found(pr, balances[k])
                        ELSE [pr EXCEPT !.pc = "newbal"]]
    /\ UNCHANGED <<balances, requests, nextId, held>>

\* getOrCreateBalance: LeaveBalance.create after findOne found no row.  The
\* unique index on (employee_id, leave_type_id, year) refuses a second row.
CreateBalance(p) ==
    /\ procs[p].pc = "newbal"
    /\ LET pr == procs[p]
           k == CurKey(pr)
       IN  IF k \in DOMAIN balances
           THEN /\ procs' = [procs EXCEPT ![p] =
                               IF pr.op = "rebalance" THEN Caught(pr)
                               ELSE rollback(pr, "unique-violation")]
                /\ UNCHANGED balances
           ELSE /\ balances' = [x \in DOMAIN balances \cup {k} |->
                                   IF x = k THEN NewBalance(k[2]) ELSE balances[x]]
                /\ procs' = [procs EXCEPT ![p] = Found(pr, NewBalance(k[2]))]
    /\ UNCHANGED <<requests, nextId, held>>

\* createLeaveRequest: LeaveRequest.create (no transaction), then the second
\* getOrCreateBalance is issued.
InsertRequest(p) ==
    /\ procs[p].pc = "insert"
    /\ requests' = [r \in DOMAIN requests \cup {nextId} |->
                       IF r = nextId THEN SingleTypeRow(procs[p]) ELSE requests[r]]
    /\ nextId' = nextId + 1
    /\ procs' = [procs EXCEPT ![p] = [@ EXCEPT !.pc = "find", !.phase = "debit",
                                                !.req = nextId]]
    /\ UNCHANGED <<balances, held>>

\* balance.update of the current item: outside a transaction in
\* createLeaveRequest, inside the call's transaction everywhere else.  The
\* statement waits while another transaction holds the row.
UpdateBalance(p) ==
    /\ procs[p].pc = "update"
    /\ LET pr == procs[p]
           k == CurKey(pr)
       IN  /\ ~BalLocked(p, k)
           /\ IF inTransaction(pr.op)
              THEN /\ procs' = [procs EXCEPT ![p] =
                                  Advance([pr EXCEPT !.txb = BufferWrite(pr.txb, k, BalanceFields(pr))])]
                   /\ UNCHANGED balances
              ELSE /\ balances' = [balances EXCEPT ![k] = ApplyFields(@, BalanceFields(pr))]
                   /\ procs' = [procs EXCEPT ![p] =
                                  IF pr.op = "create" THEN Done(pr, "ok") ELSE Advance(pr)]
    /\ UNCHANGED <<requests, nextId, held>>

\* request.update inside the transaction of approve, reject and cancel.
UpdateRequest(p) ==
    /\ procs[p].pc = "requpd"
    /\ ~ReqLocked(p, procs[p].req)
    /\ procs' = [procs EXCEPT ![p] =
                    [@ EXCEPT !.pc = "commit",
                              !.txr = <<[id |-> procs[p].req, fields |-> StatusFields(procs[p])]>>]]
    /\ UNCHANGED <<balances, requests, nextId, held>>

\* transaction.commit: the buffered writes become the committed rows.
Commit(p) ==
    /\ procs[p].pc = "commit"
    /\ balances' = CommitBalances(balances, procs[p].txb)
    /\ requests' = CommitRequests(requests, procs[p].txr)
    /\ procs' = [procs EXCEPT ![p] = Done(procs[p], "ok")]
    /\ UNCHANGED <<nextId, held>>

\* getEmployeeBalances: getOrCreateBalance for every active leave type.
withEmployeeRows(bals, e) ==
    [k \in DOMAIN bals \cup ({e} \X TypeIds) |->
        IF k \in DOMAIN bals THEN bals[k] ELSE NewBalance(k[2])]

\* GET /api/preview-balance-consumption: the response, with the form fields it
\* was computed for, stays with the client.  The balances are taken as one
\* read of the employee's rows.
Preview(p, e, t, d) ==
    /\ ~Running(p)
    /\ balances' = withEmployeeRows(balances, e)
    /\ LET avail == [id \in TypeIds |-> getAvailableDays(balances'[<<e, id>>])]
           plan == calculateSmartBalanceConsumption(avail, t, d)
           form == [employeeId |-> e, leaveTypeId |-> t, totalDays |-> d, plan |-> plan]
           pr == [IdleProc EXCEPT !.op = "preview", !.employeeId = e]
       IN  /\ Cardinality(held \cup {form}) <= MaxHeld
           /\ held' = held \cup {form}
           /\ procs' = [procs EXCEPT ![p] =
                           Done(pr, IF plan.insufficientBalance
                                    THEN "insufficient-balance" ELSE "ok")]
    /\ UNCHANGED <<requests, nextId>>

\* The client closes the form without submitting.
CloseForm(form) ==
    /\ form \in held
    /\ held' = held \ {form}
    /\ UNCHANGED <<balances, requests, nextId, procs>>

\* The form pages offer the submit button only for a plan without a shortage.
CanConfirm(form) == form \in held /\ ~form.plan.insufficientBalance

\* A creating call with a confirmed breakdown, up to LeaveRequest.create inside
\* the new transaction; row is the leave_requests row it inserts.
SubmitBreakdown(p, form, op, by, row) ==
    /\ ~Running(p)
    /\ CanConfirm(form)
    /\ nextId + InsertsPending <= MaxRequests
    /\ LET pr == [IdleProc EXCEPT !.op = op, !.employeeId = form.employeeId,
                                  !.leaveTypeId = form.leaveTypeId,
                                  !.totalDays = form.totalDays, !.by = by,
                                  !.req = nextId, !.owner = form.employeeId,
                                  !.items = debitable(form.plan.breakdown),
                                  !.txr = <<[id |-> nextId, fields |-> row]>>]
       IN  procs' = [procs EXCEPT ![p] = EnterLoop(pr)]
    /\ nextId' = nextId + 1
    /\ held' = held \ {form}
    /\ UNCHANGED <<balances, requests>>

\* POST /apply-smart, /apply-behalf-smart: createLeaveRequestWithSmartConsumption
\* with the breakdown the client confirmed.
SubmitSmart(p, form, by) ==
    SubmitBreakdown(p, form, "smart", by, SmartRow(form, by, form.plan.breakdown))

\* POST /historic-import: createHistoricLeaveRequest, likewise.
SubmitHistoric(p, form, by) ==
    SubmitBreakdown(p, form, "historic", by, HistoricRow(form, by, form.plan.breakdown))

\* Faulty variant: a call on a request that does not exist returns normally.
silentReturn(pr) == Done(pr, "ok")

\* if (!request) throw new Error('Leave request not found'), before the
\* transaction is opened and before any balance row is looked up.
requestNotFound(pr) == Done(pr, "not-found")

\* approveLeaveRequest / rejectLeaveRequest up to the start of the transaction.
StartDecide(p, op, requestId, adminId) ==
    /\ ~Running(p)
    /\ LET pr == [IdleProc EXCEPT !.op = op, !.req = requestId, !.by = adminId]
       IN  procs' = [procs EXCEPT ![p] =
                IF requestId \notin DOMAIN requests THEN requestNotFound(pr)
                ELSE IF ~isPending(requests[requestId]) THEN Done(pr, "invalid-transition")
                ELSE EnterLoop([pr EXCEPT !.owner = requests[requestId].employee_id,
                                          !.items = requestItems(requests[requestId])])]
    /\ UNCHANGED <<balances, requests, nextId, held>>

StartApprove(p, requestId, adminId) == StartDecide(p, "approve", requestId, adminId)
StartReject(p, requestId, adminId) == StartDecide(p, "reject", requestId, adminId)

\* cancelLeaveRequest up to the start of the transaction.
StartCancel(p, requestId, employeeId) ==
    /\ ~Running(p)
    /\ LET pr == [IdleProc EXCEPT !.op = "cancel", !.req = requestId,
                                  !.employeeId = employeeId]
       IN  procs' = [procs EXCEPT ![p] =
                IF requestId \notin DOMAIN requests THEN requestNotFound(pr)
                ELSE IF ~isOwner(requests[requestId], employeeId) THEN Done(pr, "not-owner")
                ELSE IF ~isPending(requests[requestId]) THEN Done(pr, "invalid-transition")
                ELSE EnterLoop([pr EXCEPT !.owner = requests[requestId].employee_id,
                                          !.items = requestItems(requests[requestId])])]
    /\ UNCHANGED <<balances, requests, nextId, held>>

\* balance.update fails (lost connection, lock wait timeout, value out of range).
\* createLeaveRequest has no transaction and just throws; the other calls roll
\* their transaction back and rethrow.
UpdateFails(p) ==
    /\ procs[p].pc = "update"
    /\ procs' = [procs EXCEPT ![p] = rollback(procs[p], "db-error")]
    /\ UNCHANGED <<balances, requests, nextId, held>>

\* The handler's next statement waits for a row lock of another transaction.
Blocked(p) ==
    \/ procs[p].pc = "update" /\ BalLocked(p, CurKey(procs[p]))
    \/ procs[p].pc = "requpd" /\ ReqLocked(p, procs[p].req)

\* Two transactions wait for each other's row locks: InnoDB's deadlock
\* detection fails the statement of one of them (ER_LOCK_DEADLOCK), whose
\* catch block rolls back and rethrows.
DeadlockAbort(p) ==
    /\ Blocked(p)
    /\ \E q \in Procs \ {p} : Blocked(q)
    /\ procs' = [procs EXCEPT ![p] = rollback(procs[p], "deadlock")]
    /\ UNCHANGED <<balances, requests, nextId, held>>

\* addEntitlement / removeEntitlement up to the first getOrCreateBalance's
\* findOne; the loop visits employeeIds in order, idx is its position.
StartEntitlement(p, op, employeeIds, leaveTypeId, days, createdBy) ==
    /\ ~Running(p)
    /\ LET pr == [IdleProc EXCEPT !.op = op, !.employeeIds = employeeIds,
                                  !.leaveTypeId = leaveTypeId, !.totalDays = days,
                                  !.by = createdBy, !.owner = employeeIds[1],
                                  !.items = [i \in 1..Len(employeeIds) |->
                                                Item(leaveTypeId, days)],
                                  !.idx = 1]
           k == CurKey(pr)
       IN  procs' = [procs EXCEPT ![p] =
                        IF k \in DOMAIN balances THEN Found(pr, balances[k])
                        ELSE [pr EXCEPT !.pc = "newbal"]]
    /\ UNCHANGED <<balances, requests, nextId, held, logs>>

StartAdd(p, employeeIds, leaveTypeId, days, createdBy) ==
    StartEntitlement(p, "add", employeeIds, leaveTypeId, days, createdBy)
StartRemove(p, employeeIds, leaveTypeId, days, createdBy) ==
    StartEntitlement(p, "remove", employeeIds, leaveTypeId, days, createdBy)

\* The balance.update of addEntitlement and removeEntitlement (no
\* transaction); removeEntitlement first tests the row it read and throws
\* when the new entitlement would be below used + pending, or below zero.
UpdateEntitlement(p) ==
    /\ procs[p].pc = "entitle"
    /\ LET pr == procs[p]
           k == CurKey(pr)
       IN  /\ ~BalLocked(p, k)
           /\ IF pr.op = "remove" /\ belowFloor(pr.bal, pr.totalDays)
              THEN /\ procs' = [procs EXCEPT ![p] = Done(pr, "floor-violation")]
                   /\ UNCHANGED balances
              ELSE IF pr.op = "remove" /\ belowZero(pr.bal, pr.totalDays)
              THEN /\ procs' = [procs EXCEPT ![p] = Done(pr, "below-zero")]
                   /\ UNCHANGED balances
              ELSE /\ balances' = [balances EXCEPT ![k] =
                                      ApplyFields(@, IF pr.op = "add"
                                                     THEN AddEntitled(pr.bal, pr.totalDays)
                                                     ELSE RemoveEntitled(pr.bal, pr.totalDays))]
                   /\ procs' = [procs EXCEPT ![p] = [pr EXCEPT !.pc = "entlog"]]
    /\ UNCHANGED <<requests, nextId, held, logs>>

\* LeaveEntitlementLog.create for the employee just updated, then the next
\* employee's getOrCreateBalance, or the return.
LogEntitlement(p) ==
    /\ procs[p].pc = "entlog"
    /\ LET pr == procs[p]
       IN  /\ logs' = Append(logs, [employee_id |-> pr.owner,
                                    leave_type_id |-> pr.leaveTypeId,
                                    days_added |-> IF pr.op = "add" THEN pr.totalDays
                                                   ELSE 0 - pr.totalDays,
                                    created_by |-> pr.by])
           /\ procs' = [procs EXCEPT ![p] =
                           IF pr.idx < Len(pr.employeeIds)
                           THEN [pr EXCEPT !.pc = "find", !.idx = pr.idx + 1,
                                           !.owner = pr.employeeIds[pr.idx + 1]]
                           ELSE Done(pr, "ok")]
    /\ UNCHANGED <<balances, requests, nextId, held>>

\* The buckets rebalanceAllEntitlements visits: for every active employee the
\* vacation bucket, then the Flex bucket, each with its policy value.
RebalancedTypes ==
    LET found(t) == t # NULL
    IN  SelectSeq(<<vacationType, flexType>>, found)

rebalanceOwners ==
    [i \in 1..(Len(EmployeeRows) * Len(RebalancedTypes)) |->
        EmployeeRows[((i - 1) \div Len(RebalancedTypes)) + 1].id]

rebalanceItems(now, tz) ==
    [i \in 1..(Len(EmployeeRows) * Len(RebalancedTypes)) |->
        LET employee == EmployeeRows[((i - 1) \div Len(RebalancedTypes)) + 1]
            t == RebalancedTypes[((i - 1) % Len(RebalancedTypes)) + 1]
        IN  Item(t, IF t = vacationType THEN correctVacationDays(employee, now, tz)
                    ELSE correctFlexDays(employee, tz))]

\* rebalanceAllEntitlements up to the first getOrCreateBalance's findOne.
\* phase records whether the handler's last call was a rebalance as well.
StartRebalance(p, adminId, now, tz) ==
    /\ ~Running(p)
    /\ LET pr == [IdleProc EXCEPT !.op = "rebalance", !.by = adminId,
                                  !.employeeIds = rebalanceOwners,
                                  !.items = rebalanceItems(now, tz),
                                  !.phase = IF procs[p].op = "rebalance" THEN "again"
                                            ELSE "first"]
       IN  procs' = [procs EXCEPT ![p] =
                IF pr.items = <<>>
                THEN Rebalanced([pr EXCEPT !.processed = Len(EmployeeRows)])
                ELSE LET first == [ToBucket(pr, 1) EXCEPT !.pc = "idle"]
                         k == CurKey(first)
                     IN  IF k \in DOMAIN balances THEN Found(first, balances[k])
                         ELSE [first EXCEPT !.pc = "newbal"]]
    /\ UNCHANGED <<balances, requests, nextId, held, logs>>

\* rebalanceAllEntitlements: the test of the bucket just read and its
\* balance.update (no transaction); a bucket at its target is passed over.
UpdateRebalanced(p) ==
    /\ procs[p].pc = "rebalance"
    /\ LET pr == procs[p]
           k == CurKey(pr)
           newDays == rebalancedDays(pr.bal, pr.items[pr.idx].days)
       IN  IF differs(pr.bal.entitled_days, newDays)
           THEN /\ ~BalLocked(p, k)
                /\ balances' = [balances EXCEPT ![k] =
                                   ApplyFields(@, [entitled_days |-> newDays])]
                /\ procs' = [procs EXCEPT ![p] = [pr EXCEPT !.pc = "rebalog"]]
           ELSE /\ procs' = [procs EXCEPT ![p] = NextBucket(pr)]
                /\ UNCHANGED balances
    /\ UNCHANGED <<requests, nextId, held, logs>>

\* rebalanceAllEntitlements: LeaveEntitlementLog.create for the bucket just
\* updated and results.changes.push, then the next bucket.
LogRebalanced(p) ==
    /\ procs[p].pc = "rebalog"
    /\ LET pr == procs[p]
           newDays == rebalancedDays(pr.bal, pr.items[pr.idx].days)
       IN  /\ logs' = Append(logs, [employee_id |-> pr.owner,
                                    leave_type_id |-> pr.leaveTypeId,
                                    days_added |-> newDays - pr.bal.entitled_days,
                                    created_by |-> pr.by])
           /\ procs' = [procs EXCEPT ![p] = NextBucket([pr EXCEPT !.totalDays = @ + 1])]
    /\ UNCHANGED <<balances, requests, nextId, held>>

\* The day, counted like the days of a span, on which the forms are submitted
\* (a Monday).
SpanToday == 1

\* A route answers with an error message before it calls the service.
Refused(p, e, res) ==
    /\ procs' = [procs EXCEPT ![p] =
                    Done([IdleProc EXCEPT !.op = "create", !.employeeId = e], res)]
    /\ UNCHANGED <<balances, requests, nextId, held>>

Submitted(route, startDate, endDate, tz) ==
    [fn |-> route, startDate |-> startDate, endDate |-> endDate, tz |-> tz,
     result |-> calculateWorkingDays(startDate, endDate, tz)]

\* POST /employee/apply: the dates are checked, then createLeaveRequest runs
\* up to its first query.  new Date().setHours(0, 0, 0, 0) is local midnight.
Apply(p, e, t, startDate, endDate, tz) ==
    /\ ~Running(p)
    /\ probe' = Submitted("POST /apply", startDate, endDate, tz)
    /\ IF parseDay(startDate) > parseDay(endDate)
       THEN Refused(p, e, "invalid-range")
       ELSE IF parseDay(startDate) < parseDay(SpanToday) - tz
       THEN Refused(p, e, "past-date")
       ELSE IF calculateWorkingDays(startDate, endDate, tz) = 0
       THEN Refused(p, e, "invalid-range")
       ELSE StartCreate(p, e, t, calculateWorkingDays(startDate, endDate, tz), NULL)

\* POST /admin/apply-behalf: createLeaveRequest is called with the dates as
\* they were posted.
ApplyBehalf(p, adminId, e, t, startDate, endDate, tz) ==
    /\ probe' = Submitted("POST /apply-behalf", startDate, endDate, tz)
    /\ StartCreate(p, e, t, calculateWorkingDays(startDate, endDate, tz), adminId)

\* The service calls whose route notifies once the call has returned:
\* notifyNewLeaveRequest, notifyLeaveApproved, notifyLeaveRejected and
\* notifyLeaveCancelled.
Notified == {"create", "approve", "reject", "cancel"}

\* Faulty variant: the route notifies whatever the service call came to.
anyOutcome(pr) == TRUE

\* The statements after `await leaveService...` run only when the call did
\* not throw; a throw goes to the route's catch, which flashes the error.
succeeded(pr) == pr.result = "ok"

Notice(pr) == [kind |-> pr.op, req |-> pr.req, state |-> "sending"]

dispatched(pr) ==
    \E i \in DOMAIN outbox : outbox[i].kind = pr.op /\ outbox[i].req = pr.req

\* The route is between the service call's return and its notify... call
\* (it awaits Employee.findByPk and LeaveType.findByPk there).
toNotify(p) ==
    /\ procs[p].pc = "done"
    /\ procs[p].op \in Notified
    /\ succeeded(procs[p])
    /\ ~dispatched(procs[p])

\* notificationService.notify...(request, ...) is called and not awaited; the
\* route goes on to req.flash('success', ...) and the redirect.
Dispatch(p) ==
    /\ toNotify(p)
    /\ outbox' = Append(outbox, Notice(procs[p]))
    /\ UNCHANGED <<balances, requests, nextId, held, procs>>

\* The promise of a notify... call settles: the mail and the Slack message
\* went out, or a send failed, which sendEmail's and the notify... function's
\* catch blocks write to the console and nothing else.
Outcomes == {"sent", "failed"}
Settle(i, outcome) ==
    /\ outbox[i].state = "sending"
    /\ outbox' = [outbox EXCEPT ![i].state = outcome]
    /\ UNCHANGED <<balances, requests, nextId, held, procs>>

(****************************** history ************************************)
NoSnap == [live |-> FALSE, balances |-> <<>>, requests |-> <<>>, logs |-> <<>>]
Snap == [live |-> TRUE, balances |-> balances, requests |-> requests, logs |-> logs]

\* A balance row as a call would read it (getOrCreateBalance creates it if absent).
RowOf(bals, k) == IF k \in DOMAIN bals THEN bals[k] ELSE NewBalance(k[2])

\* History kept while one call runs at a time: own[r][k] accumulates what the
\* calls on request r changed in row k; pre is the committed state the running
\* call started from.
Track(p) ==
    /\ own' = IF procs[p].req \in RequestIds
              THEN [own EXCEPT ![procs[p].req] =
                      [k \in Keys |->
                         [f \in DOMAIN ZeroRow |->
                             @[k][f] + RowOf(balances', k)[f] - RowOf(balances, k)[f]]]]
              ELSE own
    /\ pre' = IF ~Running(p) /\ procs'[p].pc \notin {"idle", "done"} THEN Snap
              ELSE IF Running(p) /\ procs'[p].pc \in {"idle", "done"} THEN NoSnap
              ELSE pre

Untracked == UNCHANGED <<own, pre>>

\* No date function has been called yet.
NoProbe == [fn |-> "none"]

(*************************** specifications ********************************)
Init ==
    /\ balances = <<>>
    /\ requests = <<>>
    /\ nextId = 1
    /\ held = {}
    /\ procs = [p \in Procs |-> IdleProc]
    /\ logs = <<>>
    /\ outbox = <<>>
    /\ probe = NoProbe
    /\ calls = 0
    /\ own = [r \in RequestIds |-> [k \in Keys |-> ZeroRow]]
    /\ pre = NoSnap

\* The service calls send no notification (the route handlers do) and leave
\* the date functions' last call alone; the lifecycle calls write no
\* entitlement log.
Aside == UNCHANGED <<outbox, probe>>
Call == calls < MaxCalls /\ calls' = calls + 1 /\ Untracked /\ UNCHANGED logs /\ Aside
Step == UNCHANGED <<calls, logs>> /\ Untracked /\ Aside

\* Handlers interleave at every await; the database does not fail.  A lock
\* wait ends when the holder commits.
Next ==
    \/ \E p \in Procs, e \in Applicants, t \in PrimaryChoices, d \in 1..MaxDays :
          StartCreate(p, e, t, d, NULL) /\ Call
    \/ \E p \in Procs, e \in Applicants, t \in PrimaryChoices, d \in 1..MaxDays :
          Preview(p, e, t, d) /\ Call
    \/ \E form \in held : CloseForm(form) /\ Step
    \/ \E p \in Procs, form \in held : SubmitSmart(p, form, form.employeeId) /\ Call
    \/ \E p \in Procs, form \in held, by \in Admins : SubmitHistoric(p, form, by) /\ Call
    \/ \E p \in Procs, r \in RequestIds, a \in Admins : StartApprove(p, r, a) /\ Call
    \/ \E p \in Procs, r \in RequestIds, a \in Admins : StartReject(p, r, a) /\ Call
    \/ \E p \in Procs, r \in RequestIds, e \in Employees : StartCancel(p, r, e) /\ Call
    \/ \E p \in Procs : FindBalance(p) /\ Step
    \/ \E p \in Procs : CreateBalance(p) /\ Step
    \/ \E p \in Procs : InsertRequest(p) /\ Step
    \/ \E p \in Procs : UpdateBalance(p) /\ Step
    \/ \E p \in Procs : UpdateRequest(p) /\ Step
    \/ \E p \in Procs : Commit(p) /\ Step

Spec == Init /\ [][Next]_vars

\* One handler serves the calls one after the other.
SeqProcs == {"h1"}
InTurn(p) == UNCHANGED <<calls, logs>> /\ Track(p) /\ Aside

TurnCall(p) ==
    calls < MaxSeqCalls /\ calls' = calls + 1 /\ Track(p) /\ UNCHANGED logs /\ Aside

NextSeq ==
    \/ \E p \in SeqProcs, e \in Applicants, t \in PrimaryChoices, d \in 1..MaxDays :
          StartCreate(p, e, t, d, NULL) /\ TurnCall(p)
    \/ \E p \in SeqProcs, e \in Applicants, t \in PrimaryChoices, d \in 1..MaxDays :
          Preview(p, e, t, d) /\ TurnCall(p)
    \/ \E form \in held : CloseForm(form) /\ Step
    \/ \E p \in SeqProcs, form \in held : SubmitSmart(p, form, form.employeeId) /\ TurnCall(p)
    \/ \E p \in SeqProcs, form \in held, by \in Admins : SubmitHistoric(p, form, by) /\ TurnCall(p)
    \/ \E p \in SeqProcs, r \in RequestIds, a \in Admins : StartApprove(p, r, a) /\ TurnCall(p)
    \/ \E p \in SeqProcs, r \in RequestIds, a \in Admins : StartReject(p, r, a) /\ TurnCall(p)
    \/ \E p \in SeqProcs, r \in RequestIds, e \in Employees : StartCancel(p, r, e) /\ TurnCall(p)
    \/ \E p \in SeqProcs : FindBalance(p) /\ InTurn(p)
    \/ \E p \in SeqProcs : CreateBalance(p) /\ InTurn(p)
    \/ \E p \in SeqProcs : InsertRequest(p) /\ InTurn(p)
    \/ \E p \in SeqProcs : UpdateBalance(p) /\ InTurn(p)
    \/ \E p \in SeqProcs : UpdateRequest(p) /\ InTurn(p)
    \/ \E p \in SeqProcs : Commit(p) /\ InTurn(p)

SpecSeq == Init /\ [][NextSeq]_vars

\* One handler at a time, and any balance.update may fail.
NextFault ==
    \/ NextSeq
    \/ \E p \in SeqProcs : UpdateFails(p) /\ InTurn(p)

SpecFault == Init /\ [][NextFault]_vars

\* One handler at a time, the admin's entitlement changes among the calls.
AdminCall(p) == calls < MaxAdminCalls /\ calls' = calls + 1 /\ Track(p) /\ Aside
AdminStep(p) == UNCHANGED calls /\ Track(p) /\ Aside

NextAdmin ==
    \/ \E p \in SeqProcs, e \in Applicants, t \in EntitledTypes, d \in 1..MaxDays :
          StartCreate(p, e, t, d, NULL) /\ AdminCall(p) /\ UNCHANGED logs
    \/ \E p \in SeqProcs, e \in Applicants, t \in EntitledTypes, d \in 1..MaxDays :
          Preview(p, e, t, d) /\ AdminCall(p) /\ UNCHANGED logs
    \/ \E p \in SeqProcs, form \in held :
          SubmitSmart(p, form, form.employeeId) /\ AdminCall(p) /\ UNCHANGED logs
    \/ \E p \in SeqProcs, r \in RequestIds, a \in Admins :
          StartApprove(p, r, a) /\ AdminCall(p) /\ UNCHANGED logs
    \/ \E p \in SeqProcs, r \in RequestIds, a \in Admins :
          StartReject(p, r, a) /\ AdminCall(p) /\ UNCHANGED logs
    \/ \E p \in SeqProcs, r \in RequestIds, e \in Applicants :
          StartCancel(p, r, e) /\ AdminCall(p) /\ UNCHANGED logs
    \/ \E p \in SeqProcs, ids \in EmployeeLists, t \in EntitledTypes, d \in 1..MaxDays,
          a \in Admins :
          StartAdd(p, ids, t, d, a) /\ AdminCall(p)
    \/ \E p \in SeqProcs, ids \in EmployeeLists, t \in EntitledTypes, d \in 1..MaxDays,
          a \in Admins :
          StartRemove(p, ids, t, d, a) /\ AdminCall(p)
    \/ \E p \in SeqProcs : FindBalance(p) /\ AdminStep(p) /\ UNCHANGED logs
    \/ \E p \in SeqProcs : CreateBalance(p) /\ AdminStep(p) /\ UNCHANGED logs
    \/ \E p \in SeqProcs : InsertRequest(p) /\ AdminStep(p) /\ UNCHANGED logs
    \/ \E p \in SeqProcs : UpdateBalance(p) /\ AdminStep(p) /\ UNCHANGED logs
    \/ \E p \in SeqProcs : UpdateRequest(p) /\ AdminStep(p) /\ UNCHANGED logs
    \/ \E p \in SeqProcs : Commit(p) /\ AdminStep(p) /\ UNCHANGED logs
    \/ \E p \in SeqProcs : UpdateEntitlement(p) /\ AdminStep(p)
    \/ \E p \in SeqProcs : LogEntitlement(p) /\ AdminStep(p)

SpecAdmin == Init /\ [][NextAdmin]_vars

\* One handler at a time: requests on the vacation bucket, entitlement changes
\* to it (a negative number of days is accepted like any other), and the
\* rebalance of every employee's buckets.
RebalanceChoices == {vacationType}
AddedDays == {-1, 1}
RemovedDays == {1}
RebalanceCall(p) ==
    calls < MaxRebalanceCalls /\ calls' = calls + 1 /\ Track(p) /\ Aside

NextRebalance ==
    \/ \E p \in SeqProcs, e \in Applicants, t \in RebalanceChoices, d \in 1..MaxDays :
          StartCreate(p, e, t, d, NULL) /\ RebalanceCall(p) /\ UNCHANGED logs
    \/ \E p \in SeqProcs, r \in RequestIds, a \in Admins :
          StartApprove(p, r, a) /\ RebalanceCall(p) /\ UNCHANGED logs
    \/ \E p \in SeqProcs, ids \in EmployeeLists, t \in RebalanceChoices, d \in AddedDays,
          a \in Admins :
          StartAdd(p, ids, t, d, a) /\ RebalanceCall(p)
    \/ \E p \in SeqProcs, ids \in EmployeeLists, t \in RebalanceChoices, d \in RemovedDays,
          a \in Admins :
          StartRemove(p, ids, t, d, a) /\ RebalanceCall(p)
    \/ \E p \in SeqProcs, a \in Admins, tz \in TzMinutes :
          StartRebalance(p, a, Today, tz) /\ RebalanceCall(p)
    \/ \E p \in SeqProcs : FindBalance(p) /\ AdminStep(p) /\ UNCHANGED logs
    \/ \E p \in SeqProcs : CreateBalance(p) /\ AdminStep(p) /\ UNCHANGED logs
    \/ \E p \in SeqProcs : InsertRequest(p) /\ AdminStep(p) /\ UNCHANGED logs
    \/ \E p \in SeqProcs : UpdateBalance(p) /\ AdminStep(p) /\ UNCHANGED logs
    \/ \E p \in SeqProcs : UpdateRequest(p) /\ AdminStep(p) /\ UNCHANGED logs
    \/ \E p \in SeqProcs : Commit(p) /\ AdminStep(p) /\ UNCHANGED logs
    \/ \E p \in SeqProcs : UpdateEntitlement(p) /\ AdminStep(p)
    \/ \E p \in SeqProcs : LogEntitlement(p) /\ AdminStep(p)
    \/ \E p \in SeqProcs : UpdateRebalanced(p) /\ AdminStep(p)
    \/ \E p \in SeqProcs : LogRebalanced(p) /\ AdminStep(p)

SpecRebalance == Init /\ [][NextRebalance]_vars

\* The entitlement calls of two admins (or one admin's repeated submit)
\* interleave at every await; none of them opens a transaction.
EntitleCall == calls < MaxEntitleCalls /\ calls' = calls + 1 /\ Untracked /\ Aside
EntitleStep == UNCHANGED calls /\ Untracked /\ Aside

NextEntitle ==
    \/ \E p \in Procs, ids \in EmployeeLists, t \in RebalanceChoices, d \in RemovedDays,
          a \in Admins :
          StartAdd(p, ids, t, d, a) /\ EntitleCall
    \/ \E p \in Procs, ids \in EmployeeLists, t \in RebalanceChoices, d \in RemovedDays,
          a \in Admins :
          StartRemove(p, ids, t, d, a) /\ EntitleCall
    \/ \E p \in Procs, a \in Admins, tz \in TzMinutes :
          StartRebalance(p, a, Today, tz) /\ EntitleCall
    \/ \E p \in Procs : FindBalance(p) /\ EntitleStep /\ UNCHANGED logs
    \/ \E p \in Procs : CreateBalance(p) /\ EntitleStep /\ UNCHANGED logs
    \/ \E p \in Procs : UpdateEntitlement(p) /\ EntitleStep
    \/ \E p \in Procs : LogEntitlement(p) /\ EntitleStep
    \/ \E p \in Procs : UpdateRebalanced(p) /\ EntitleStep
    \/ \E p \in Procs : LogRebalanced(p) /\ EntitleStep

SpecEntitle == Init /\ [][NextEntitle]_vars

\* One handler at a time: forms with a start and an end date, posted by the
\* employee and by an admin on the employee's behalf.
FormDays == 0..MaxFormDay
ApplyCall(p) ==
    calls < MaxApplyCalls /\ calls' = calls + 1 /\ Track(p) /\ UNCHANGED <<logs, outbox>>

NextApply ==
    \/ \E p \in SeqProcs, e \in Applicants, t \in RebalanceChoices,
          startDate \in FormDays, endDate \in FormDays, tz \in TzMinutes :
          Apply(p, e, t, startDate, endDate, tz) /\ ApplyCall(p)
    \/ \E p \in SeqProcs, a \in Admins, e \in Applicants, t \in RebalanceChoices,
          startDate \in FormDays, endDate \in FormDays, tz \in TzMinutes :
          ApplyBehalf(p, a, e, t, startDate, endDate, tz) /\ ApplyCall(p)
    \/ \E p \in SeqProcs : FindBalance(p) /\ InTurn(p)
    \/ \E p \in SeqProcs : CreateBalance(p) /\ InTurn(p)
    \/ \E p \in SeqProcs : InsertRequest(p) /\ InTurn(p)
    \/ \E p \in SeqProcs : UpdateBalance(p) /\ InTurn(p)

SpecApply == Init /\ [][NextApply]_vars

\* One handler at a time, any balance.update may fail, and the routes notify.
\* A route takes its next request once it has answered the one before.
Posting == UNCHANGED <<calls, logs, probe>> /\ Untracked
NotifyCall(p) ==
    /\ ~toNotify(p)
    /\ calls < MaxNotifyCalls /\ calls' = calls + 1
    /\ Track(p) /\ UNCHANGED logs /\ Aside

NextNotify ==
    \/ \E p \in SeqProcs, e \in Applicants, t \in PrimaryChoices, d \in 1..MaxDays :
          StartCreate(p, e, t, d, NULL) /\ NotifyCall(p)
    \/ \E p \in SeqProcs, r \in RequestIds, a \in Admins : StartApprove(p, r, a) /\ NotifyCall(p)
    \/ \E p \in SeqProcs, r \in RequestIds, a \in Admins : StartReject(p, r, a) /\ NotifyCall(p)
    \/ \E p \in SeqProcs, r \in RequestIds, e \in Employees : StartCancel(p, r, e) /\ NotifyCall(p)
    \/ \E p \in SeqProcs : FindBalance(p) /\ InTurn(p)
    \/ \E p \in SeqProcs : CreateBalance(p) /\ InTurn(p)
    \/ \E p \in SeqProcs : InsertRequest(p) /\ InTurn(p)
    \/ \E p \in SeqProcs : UpdateBalance(p) /\ InTurn(p)
    \/ \E p \in SeqProcs : UpdateRequest(p) /\ InTurn(p)
    \/ \E p \in SeqProcs : Commit(p) /\ InTurn(p)
    \/ \E p \in SeqProcs : UpdateFails(p) /\ InTurn(p)
    \/ \E p \in SeqProcs : Dispatch(p) /\ Posting
    \/ \E i \in DOMAIN outbox, outcome \in Outcomes : Settle(i, outcome) /\ Posting

SpecNotify == Init /\ [][NextNotify]_vars

\* Handlers interleave at every await: requests on one bucket are created and
\* approved.
UsedChoices == {"lt1"}
UsedCall == calls < MaxUsedCalls /\ calls' = calls + 1 /\ Untracked /\ UNCHANGED logs /\ Aside

NextUsed ==
    \/ \E p \in Procs, e \in Applicants, t \in UsedChoices, d \in 1..MaxDays :
          StartCreate(p, e, t, d, NULL) /\ UsedCall
    \/ \E p \in Procs, r \in RequestIds, a \in Admins : StartApprove(p, r, a) /\ UsedCall
    \/ \E p \in Procs : FindBalance(p) /\ Step
    \/ \E p \in Procs : CreateBalance(p) /\ Step
    \/ \E p \in Procs : InsertRequest(p) /\ Step
    \/ \E p \in Procs : UpdateBalance(p) /\ Step
    \/ \E p \in Procs : UpdateRequest(p) /\ Step
    \/ \E p \in Procs : Commit(p) /\ Step

SpecUsed == Init /\ [][NextUsed]_vars

\* Handlers interleave at every await; the calls are those that open a
\* transaction, on requests planned over one or two buckets, and any
\* balance.update may fail.  The balance rows exist (the preview has created
\* them).  A handler whose awaited statement has completed goes on, and a
\* deadlock is detected at once.
TxChoices == {"lt1", "lt2"}
TxDays == 2..MaxTxDays
TxCall == calls < MaxTxCalls /\ calls' = calls + 1 /\ Untracked /\ UNCHANGED logs /\ Aside

Proceed(p) ==
    \/ FindBalance(p) /\ Step
    \/ UpdateBalance(p) /\ Step
    \/ UpdateRequest(p) /\ Step
    \/ Commit(p) /\ Step
    \/ DeadlockAbort(p) /\ Step

NextTx ==
    \/ \E p \in Procs, e \in Applicants, t \in TxChoices, d \in TxDays :
          Preview(p, e, t, d) /\ TxCall
    \/ \E p \in Procs, form \in held : SubmitSmart(p, form, form.employeeId) /\ TxCall
    \/ \E p \in Procs, form \in held, by \in Admins : SubmitHistoric(p, form, by) /\ TxCall
    \/ \E p \in Procs, r \in RequestIds, a \in Admins : StartApprove(p, r, a) /\ TxCall
    \/ \E p \in Procs, r \in RequestIds, a \in Admins : StartReject(p, r, a) /\ TxCall
    \/ \E p \in Procs, r \in RequestIds, e \in Applicants : StartCancel(p, r, e) /\ TxCall
    \/ \E p \in Procs : FindBalance(p) /\ Step
    \/ \E p \in Procs : UpdateBalance(p) /\ Step
    \/ \E p \in Procs : UpdateRequest(p) /\ Step
    \/ \E p \in Procs : Commit(p) /\ Step
    \/ \E p \in Procs : DeadlockAbort(p) /\ Step
    \/ \E p \in Procs : UpdateFails(p) /\ Step

SpecTx == Init /\ [][NextTx]_vars /\ \A p \in Procs : WF_vars(Proceed(p))

\* The planner alone: the employee's balance rows are any of a bounded set
\* (an overdrawn row among them), and previews for every leave type are asked.
PlanRows == [entitled_days : 0..MaxEntitled, used_days : {0}, pending_days : 0..1]

InitPlan ==
    /\ balances \in [Applicants \X TypeIds -> PlanRows]
    /\ balances[<<"e1", "lt5">>] = NewBalance("lt5")
    /\ requests = <<>>
    /\ nextId = 1
    /\ held = {}
    /\ procs = [p \in Procs |-> IdleProc]
    /\ logs = <<>>
    /\ outbox = <<>>
    /\ probe = NoProbe
    /\ calls = 0
    /\ own = [r \in RequestIds |-> [k \in Keys |-> ZeroRow]]
    /\ pre = NoSnap

NextPlan ==
    \/ \E p \in SeqProcs, e \in Applicants, t \in TypeIds, d \in 1..MaxPlanDays :
          Preview(p, e, t, d) /\ Step
    \/ \E form \in held : CloseForm(form) /\ Step

SpecPlan == InitPlan /\ [][NextPlan]_vars

\* The date functions alone: one call, on any span, join date and clock tried.
JoinYears == (CurrentYear - MaxTenure)..(CurrentYear + 1)
JoinDates ==
    {d \in [year : JoinYears, month : 0..11, date : {1, 15, 28, 29, 30, 31}] :
        d.date <= DaysInMonth(d.year, d.month)}
Clocks ==
    {d \in [year : {CurrentYear}, month : {0, 1, 2, 5, 9, 11}, date : {1, 15, 28, 31},
            minute : {0, 720}] :
        d.date <= DaysInMonth(d.year, d.month)}
FullYearDays == {3, 7, 14, 18}
ProbationMonths == {2, 3}

Ledger == <<balances, requests, nextId, held, procs, logs, outbox, calls, own, pre>>

WorkingDaysCalled(startDate, endDate, tz) ==
    /\ probe = NoProbe
    /\ probe' = [fn |-> "calculateWorkingDays", startDate |-> startDate,
                 endDate |-> endDate, tz |-> tz,
                 result |-> calculateWorkingDays(startDate, endDate, tz)]
    /\ UNCHANGED Ledger

TenureCalled(joinDate, now, tz) ==
    /\ probe = NoProbe
    /\ probe' = [fn |-> "calculateTenureBasedVacation", joinDate |-> joinDate,
                 now |-> now, tz |-> tz,
                 result |-> calculateTenureBasedVacation(joinDate, now, tz)]
    /\ UNCHANGED Ledger

ProRataCalled(defaultDays, joinDate, probationMonths, year, tz) ==
    /\ probe = NoProbe
    /\ probe' = [fn |-> "calculateProRataEntitlement", defaultDays |-> defaultDays,
                 joinDate |-> joinDate, probationMonths |-> probationMonths,
                 year |-> year, tz |-> tz,
                 result |-> calculateProRataEntitlement(defaultDays, joinDate,
                                                        probationMonths, year, tz)]
    /\ UNCHANGED Ledger

NextDates ==
    \/ /\ probe = NoProbe
       /\ \E startDate \in SpanDays, endDate \in SpanDays, tz \in TzMinutes :
             WorkingDaysCalled(startDate, endDate, tz)
    \/ /\ probe = NoProbe
       /\ \E joinDate \in JoinDates \cup {NoDate}, now \in Clocks, tz \in TzMinutes :
             TenureCalled(joinDate, now, tz)
    \/ /\ probe = NoProbe
       /\ \E defaultDays \in FullYearDays, joinDate \in JoinDates,
             probationMonths \in ProbationMonths, tz \in TzMinutes :
             ProRataCalled(defaultDays, joinDate, probationMonths, CurrentYear, tz)

SpecDates == Init /\ [][NextDates]_vars

(****************************** properties *********************************)
Decisions == {"approve", "reject", "cancel"}

RECURSIVE SumDays(_)
SumDays(items) ==
    IF items = <<>> THEN 0 ELSE Head(items).days + SumDays(Tail(items))

\* The days the lifecycle calls move for a request on leave type t.
BucketDays(request, t) ==
    LET on(it) == it.leaveTypeId = t
    IN  SumDays(SelectSeq(requestItems(request), on))

\* The balance rows a request's lifecycle calls take days from.
Debited(request) ==
    {<<request.employee_id, requestItems(request)[i].leaveTypeId>> :
        i \in {j \in 1..Len(requestItems(request)) : requestItems(request)[j].days > 0}}

\* The days of the requests in a status that rest on balance row k.
RECURSIVE DaysIn(_, _, _)
DaysIn(ids, status, k) ==
    IF ids = {} THEN 0
    ELSE LET r == CHOOSE x \in ids : TRUE
         IN  (IF requests[r].status = status /\ requests[r].employee_id = k[1]
              THEN BucketDays(requests[r], k[2]) ELSE 0)
             + DaysIn(ids \ {r}, status, k)

SameLedger(b1, b2) == \A k \in Keys : RowOf(b1, k) = RowOf(b2, k)

Moved(pending, used) ==
    [entitled_days |-> 0, used_days |-> used, pending_days |-> pending]

\* C1: of two approveLeaveRequest calls made on the same request, at most one
\* returns successfully (Spec).
C1_OneApproveSucceeds ==
    \A p, q \in Procs :
        (/\ p # q
         /\ procs[p].pc = "done" /\ procs[q].pc = "done"
         /\ procs[p].op = "approve" /\ procs[q].op = "approve"
         /\ procs[p].req = procs[q].req)
        => ~(procs[p].result = "ok" /\ procs[q].result = "ok")

\* C2: no debit or credit is lost (Spec).  When every call has returned, when
\* no request was rejected or cancelled and the row's entitlement covers all
\* its requests (so the creating calls succeed in every serial order), a
\* balance row's pending_days is the sum of the days of its pending requests
\* and its used_days the sum of the days of its approved requests.
C2_RowMatchesRequests ==
    (/\ NoneRunning
     /\ \A r \in DOMAIN requests : requests[r].status \in {"pending", "approved"})
    => \A k \in DOMAIN balances :
          (DaysIn(DOMAIN requests, "pending", k) + DaysIn(DOMAIN requests, "approved", k)
              <= balances[k].entitled_days)
          => /\ balances[k].pending_days = DaysIn(DOMAIN requests, "pending", k)
             /\ balances[k].used_days = DaysIn(DOMAIN requests, "approved", k)

C5_TerminalRefuses ==
    [][\A p \in SeqProcs :
          (/\ calls' # calls
           /\ procs'[p].op \in Decisions
           /\ procs'[p].req \in DOMAIN requests
           /\ requests[procs'[p].req].status \in Terminal)
          => /\ procs'[p].pc = "done"
             /\ procs'[p].result =
                   IF /\ procs'[p].op = "cancel"
                      /\ procs'[p].employeeId # requests[procs'[p].req].employee_id
                   THEN "not-owner" ELSE "invalid-transition"
             /\ balances' = balances
             /\ requests' = requests]_vars

\* C5 as stated: every such call fails with invalid-transition.
C5_TerminalIsInvalidTransition ==
    [][\A p \in SeqProcs :
          (/\ calls' # calls
           /\ procs'[p].op \in Decisions
           /\ procs'[p].req \in DOMAIN requests
           /\ requests[procs'[p].req].status \in Terminal)
          => /\ procs'[p].pc = "done"
             /\ procs'[p].result = "invalid-transition"
             /\ balances' = balances
             /\ requests' = requests]_vars

C5_Witness ==
    \E p \in SeqProcs :
        /\ procs[p].pc = "done" /\ procs[p].op = "approve"
        /\ procs[p].result = "invalid-transition"
        /\ procs[p].req \in DOMAIN requests
        /\ requests[procs[p].req].status = "approved"

\* C6: when a balance.update of approve, reject or cancel fails, the call ends
\* with both tables as they were when it started and the request still
\* pending (SpecFault).
C6_FailedDecisionRollsBack ==
    [][\A p \in SeqProcs :
          (/\ Running(p)
           /\ procs[p].op \in Decisions
           /\ procs'[p].pc = "done"
           /\ procs'[p].result = "db-error")
          => /\ balances' = pre.balances
             /\ requests' = pre.requests
             /\ requests'[procs[p].req].status = "pending"]_vars

\* The update of the second bucket failed after the first bucket's was issued.
C6_Witness ==
    \E p \in SeqProcs :
        /\ procs[p].pc = "done" /\ procs[p].op \in Decisions
        /\ procs[p].result = "db-error"
        /\ procs[p].idx = 2

\* C7: a creating call that fails ends with the leave_requests table as it was
\* when the call started and every balance row with its former values
\* (SpecFault).
C7_FailedCreateLeavesNoTrace ==
    [][\A p \in SeqProcs :
          (/\ Running(p)
           /\ procs[p].op \in {"create", "smart", "historic"}
           /\ procs'[p].pc = "done"
           /\ procs'[p].result # "ok")
          => /\ requests' = pre.requests
             /\ SameLedger(balances', pre.balances)]_vars

\* C8: while no historic import has been made, no committed balance row has
\* entitled_days - used_days - pending_days below zero (Spec).
C8_AvailableNonNegative ==
    (\A r \in DOMAIN requests : ~requests[r].is_historic)
    => \A k \in DOMAIN balances : getAvailableDays(balances[k]) >= 0

\* C9: the days of the stored balance_breakdown of a request in a terminal
\* status add up to its total_days (SpecSeq).
C9_BreakdownSumsToTotal ==
    \A r \in DOMAIN requests :
        requests[r].status \in Terminal
        => (IF requests[r].balance_breakdown = <<>> THEN 0
            ELSE SumDays(requests[r].balance_breakdown[1])) = requests[r].total_days

\* What the walk has left to place when it reaches entry i of a breakdown.
Remaining(plan, i) ==
    plan.totalRequested - SumDays(SubSeq(plan.breakdown, 1, i - 1))

\* The available days of the balance row behind entry i of a held form's plan.
BucketAvailable(form, i) ==
    getAvailableDays(balances[<<form.employeeId, form.plan.breakdown[i].leaveTypeId>>])

Cascading(form) == ~isStandaloneName(findLeaveType(form.leaveTypeId).name)

PaidEntries(plan) == {i \in 1..Len(plan.breakdown) : ~plan.breakdown[i].isUnpaid}

\* unpaidDays is what is left after the paid entries, it is recorded in one
\* unpaid entry when positive, and all entries add up to totalRequested.
LeftoverIsUnpaid(plan) ==
    LET paid == SelectSeq(plan.breakdown, LAMBDA it : ~it.isUnpaid)
        unpaid == SelectSeq(plan.breakdown, LAMBDA it : it.isUnpaid)
    IN  /\ plan.unpaidDays = plan.totalRequested - SumDays(paid)
        /\ plan.unpaidDays >= 0
        /\ IF plan.unpaidDays > 0
           THEN Len(unpaid) = 1 /\ unpaid[1].days = plan.unpaidDays
           ELSE unpaid = <<>>
        /\ SumDays(plan.breakdown) = plan.totalRequested

\* What the planner does on every input, an overdrawn row included: an entry
\* of a bucket with available days takes min(remaining, available) of them,
\* the flagged entry of a primary bucket with none takes 0, the leftover is
\* unpaidDays, and the entries add up to totalRequested.
PlanConservesDays ==
    \A form \in held :
        Cascading(form)
        => /\ \A i \in PaidEntries(form.plan) :
                 LET entry == form.plan.breakdown[i]
                 IN  IF entry.noBalance
                     THEN entry.days = 0 /\ entry.isPrimary /\ BucketAvailable(form, i) <= 0
                     ELSE /\ entry.days = Min(Remaining(form.plan, i), BucketAvailable(form, i))
                          /\ entry.days <= BucketAvailable(form, i)
           /\ LeftoverIsUnpaid(form.plan)

\* C10: for a cascading primary type the plan conserves days: every paid entry
\* takes min(remaining, available) of its bucket and never more than the
\* bucket has available, the leftover is unpaidDays, and the entries add up to
\* totalRequested (SpecPlan).
C10_EveryEntryTakesMin ==
    \A form \in held :
        Cascading(form)
        => /\ \A i \in PaidEntries(form.plan) :
                 /\ form.plan.breakdown[i].days =
                        Min(Remaining(form.plan, i), BucketAvailable(form, i))
                 /\ form.plan.breakdown[i].days <= BucketAvailable(form, i)
           /\ LeftoverIsUnpaid(form.plan)

\* The id of the leave type with a name.
TypeNamed(name) ==
    LeaveTypes[CHOOSE i \in 1..Len(LeaveTypes) : LeaveTypes[i].name = name].id

\* The candidates of the cascade for a primary type, in the order of the walk.
CascadeOrder(primaryLeaveTypeId) ==
    <<primaryLeaveTypeId>>
    \o SelectSeq(<<TypeNamed("Casual"), TypeNamed("Sick"), TypeNamed("Flex")>>,
                 LAMBDA t : t # primaryLeaveTypeId)

\* The days a plan takes from the bucket of leave type t.
Taken(plan, t) ==
    SumDays(SelectSeq(plan.breakdown, LAMBDA it : ~it.isUnpaid /\ it.leaveTypeId = t))

\* What a bucket has to give.
AvailableOf(e, t) == Max(0, getAvailableDays(balances[<<e, t>>]))

\* The place of a leave type in a sequence of ids (0 when absent).
PlaceIn(ids, t) ==
    IF \E i \in 1..Len(ids) : ids[i] = t
    THEN CHOOSE i \in 1..Len(ids) : ids[i] = t
    ELSE 0

\* A breakdown reduced to its leave type ids and days.
Ledgered(breakdown) ==
    [i \in 1..Len(breakdown) |-> <<breakdown[i].leaveTypeId, breakdown[i].days>>]

\* The balances of the cascade example: Casual 2, Sick 1, Flex 0 available.
ExampleBalances(e) ==
    /\ getAvailableDays(balances[<<e, TypeNamed("Casual")>>]) = 2
    /\ getAvailableDays(balances[<<e, TypeNamed("Sick")>>]) = 1
    /\ getAvailableDays(balances[<<e, TypeNamed("Flex")>>]) = 0

\* C11: for a cascading primary type the paid entries of a plan are buckets of
\* the primary type, Casual, Sick and Flex, in that order, never of Paid Leave
\* or Unpaid Leave; a bucket gives days only if every candidate before it gave
\* all it has available; unpaid days appear, as the last entry, only if every
\* candidate gave all it has; and with Casual 2, Sick 1, Flex 0 available a
\* 5-day Casual request is planned as Casual 2, Sick 1, Unpaid 2 (SpecPlan).
C11_CascadeInPriorityOrder ==
    \A form \in held :
        Cascading(form)
        => LET plan == form.plan
               e == form.employeeId
               order == CascadeOrder(form.leaveTypeId)
           IN  /\ \A i \in PaidEntries(plan) :
                     PlaceIn(order, plan.breakdown[i].leaveTypeId) > 0
               /\ \A i, j \in PaidEntries(plan) :
                     i < j => PlaceIn(order, plan.breakdown[i].leaveTypeId)
                                < PlaceIn(order, plan.breakdown[j].leaveTypeId)
               /\ \A i \in 1..Len(plan.breakdown) :
                     plan.breakdown[i].isUnpaid => i = Len(plan.breakdown)
               /\ \A j \in 1..Len(order) :
                     Taken(plan, order[j]) > 0
                     => \A i \in 1..(j - 1) : Taken(plan, order[i]) = AvailableOf(e, order[i])
               /\ plan.unpaidDays > 0
                     => \A i \in 1..Len(order) : Taken(plan, order[i]) = AvailableOf(e, order[i])
               /\ (/\ ExampleBalances(e)
                   /\ form.leaveTypeId = TypeNamed("Casual")
                   /\ form.totalDays = 5)
                  => /\ Ledgered(plan.breakdown)
                          = << <<TypeNamed("Casual"), 2>>, <<TypeNamed("Sick"), 1>>,
                               <<TypeNamed("Unpaid Leave"), 2>> >>
                     /\ plan.unpaidDays = 2
                     /\ plan.hasOverflow

\* The plan of the cascade example is held.
C11_Witness ==
    \E form \in held :
        /\ ExampleBalances(form.employeeId)
        /\ form.leaveTypeId = TypeNamed("Casual")
        /\ form.totalDays = 5
        /\ Len(form.plan.breakdown) = 3

StandaloneNames == {"Paid Leave", "Unpaid Leave"}

\* C12: for a standalone primary type with fewer available days than
\* requested, the plan reports insufficientBalance with shortage = requested -
\* available, holds no entry of another leave type and no unpaid entry, has
\* unpaidDays 0 and hasOverflow false (SpecPlan).
C12_StandaloneFailsClosed ==
    \A form \in held :
        LET plan == form.plan
            available == getAvailableDays(balances[<<form.employeeId, form.leaveTypeId>>])
        IN  (/\ findLeaveType(form.leaveTypeId).name \in StandaloneNames
             /\ available < form.totalDays)
            => /\ plan.insufficientBalance
               /\ plan.shortage = form.totalDays - available
               /\ \A i \in 1..Len(plan.breakdown) :
                     /\ plan.breakdown[i].leaveTypeId = form.leaveTypeId
                     /\ ~plan.breakdown[i].isUnpaid
               /\ plan.unpaidDays = 0
               /\ ~plan.hasOverflow

\* A Paid Leave request for more than the bucket has, part of it available.
C12_Witness ==
    \E form \in held :
        /\ findLeaveType(form.leaveTypeId).name = "Paid Leave"
        /\ getAvailableDays(balances[<<form.employeeId, form.leaveTypeId>>]) = 1
        /\ form.totalDays = 3
        /\ form.plan.insufficientBalance
        /\ Len(form.plan.breakdown) = 1

\* C13: a call that computes a consumption plan leaves the leave_balances and
\* leave_requests tables as they were (SpecSeq).
C13_PlanningIsReadOnly ==
    [][\A p \in SeqProcs :
          (calls' # calls /\ procs'[p].op = "preview")
          => balances' = balances /\ requests' = requests]_vars

\* The committed tables a step of handler p's call started from.
Before(p) == IF Running(p) THEN pre ELSE Snap

\* C15: createLeaveRequest inserts a request only when the requested days are
\* at most the available days of the primary balance; otherwise it ends with
\* the insufficient-balance error, and then the leave_requests table is as it
\* was when the call started and every balance row has its former
\* entitled_days, used_days and pending_days (SpecSeq).
C15_InsufficientCreateChangesNothing ==
    [][\A p \in SeqProcs :
          LET was == Before(p)
              now == procs'[p]
          IN  /\ (now.op = "create" /\ now.pc = "insert" /\ procs[p].pc # "insert")
                 => now.totalDays
                      <= getAvailableDays(RowOf(was.balances, <<now.employeeId, now.leaveTypeId>>))
              /\ (/\ Running(p) /\ procs[p].op = "create" /\ procs[p].phase = "check"
                  /\ now.pc = "done")
                 => /\ procs[p].totalDays
                         > getAvailableDays(RowOf(was.balances,
                                                  <<procs[p].employeeId, procs[p].leaveTypeId>>))
                    /\ now.result = "insufficient-balance"
              /\ (/\ now.op = "create" /\ now.pc = "done"
                  /\ now.result = "insufficient-balance"
                  /\ (Running(p) \/ calls' # calls))
                 => /\ requests' = was.requests
                    /\ nextId' = nextId
                    /\ SameLedger(balances', was.balances)]_vars

\* A createLeaveRequest call was refused for want of balance.
C15_Witness ==
    \E p \in SeqProcs :
        /\ procs[p].pc = "done" /\ procs[p].op = "create"
        /\ procs[p].result = "insufficient-balance"
        /\ \A r \in DOMAIN requests : requests[r].employee_id # procs[p].employeeId

\* C16: no getOrCreateBalance call fails because another call created the row
\* of its key first (Spec).
C16_LoserRereads ==
    \A p \in Procs :
        ~(procs[p].pc = "done" /\ procs[p].result = "unique-violation")

\* The row getOrCreateBalance is to create for key k.
Seeded(k) ==
    [entitled_days |-> findLeaveType(k[2]).default_days,
     used_days |-> 0, pending_days |-> 0]

\* C17: getOrCreateBalance returns the row of its key unchanged when there is
\* one; otherwise it adds exactly one row, with entitled_days the leave type's
\* default_days and used_days = pending_days = 0, and returns it; no other row
\* changes.  The rows getEmployeeBalances creates are seeded the same way
\* (SpecSeq).
C17_GetOrCreateSeedsOnce ==
    [][\A p \in SeqProcs :
          /\ (procs[p].pc \in {"find", "newbal"} /\ procs'[p] # procs[p])
             => LET k == CurKey(procs[p])
                IN  IF k \in DOMAIN balances
                    THEN /\ balances' = balances
                         /\ procs'[p].pc = "update" => procs'[p].bal = balances[k]
                    ELSE IF procs[p].pc = "find"
                    THEN balances' = balances /\ procs'[p].pc = "newbal"
                    ELSE /\ DOMAIN balances' = DOMAIN balances \cup {k}
                         /\ balances'[k] = Seeded(k)
                         /\ \A x \in DOMAIN balances : balances'[x] = balances[x]
                         /\ procs'[p].pc = "update" => procs'[p].bal = Seeded(k)
          /\ (calls' # calls /\ procs'[p].op = "preview")
             => /\ \A x \in DOMAIN balances : balances'[x] = balances[x]
                /\ \A x \in DOMAIN balances' \ DOMAIN balances : balances'[x] = Seeded(x)]_vars

\* createLeaveRequest's second getOrCreateBalance call has returned the row its
\* first call created.
C17_Witness ==
    \E p \in SeqProcs :
        LET k == <<procs[p].employeeId, procs[p].leaveTypeId>>
        IN  /\ procs[p].op = "create" /\ procs[p].pc = "update"
            /\ pre.live /\ k \notin DOMAIN pre.balances
            /\ k \in DOMAIN balances
            /\ procs[p].bal = balances[k]
            /\ balances[k] = Seeded(k)
            /\ balances[k].entitled_days > 0

\* The days a request's stored balance_breakdown books on leave type t.
StoredDays(request, t) ==
    IF request.balance_breakdown = <<>> THEN 0
    ELSE SumDays(SelectSeq(request.balance_breakdown[1],
                           LAMBDA it : ~it.isUnpaid /\ it.leaveTypeId = t))

\* A balance row after d days left pending_days, for used_days when approved.
Settled(row, d, op) ==
    [entitled_days |-> row.entitled_days,
     used_days |-> IF op = "approve" THEN row.used_days + d ELSE row.used_days,
     pending_days |-> row.pending_days - d]

C18_CancelOnlyByOwner ==
    [][\A p \in SeqProcs :
          /\ (/\ calls' # calls /\ procs'[p].op = "cancel"
              /\ procs'[p].req \in DOMAIN requests)
             => LET request == requests[procs'[p].req]
                IN  /\ balances' = balances /\ requests' = requests
                    /\ procs'[p].employeeId # request.employee_id
                       => procs'[p].pc = "done" /\ procs'[p].result = "not-owner"
                    /\ procs'[p].pc # "done"
                       => /\ request.status = "pending"
                          /\ procs'[p].employeeId = request.employee_id
          /\ (/\ Running(p) /\ procs[p].op \in {"cancel", "reject"}
              /\ procs'[p].pc = "done" /\ procs'[p].result = "ok")
             => LET r == procs[p].req
                    request == pre.requests[r]
                IN  /\ request.status = "pending"
                    /\ procs[p].op = "cancel"
                       => /\ procs[p].employeeId = request.employee_id
                          /\ requests' = [pre.requests EXCEPT ![r].status = "cancelled"]
                    /\ procs[p].op = "reject" => requests'[r].status = "rejected"
                    /\ \A k \in Keys :
                          RowOf(balances', k)
                            = Settled(RowOf(pre.balances, k),
                                      IF k[1] = request.employee_id
                                      THEN BucketDays(request, k[2]) ELSE 0,
                                      procs[p].op)]_vars

\* Another employee's cancel was refused and the request is still pending.
C18_Witness ==
    \E p \in SeqProcs :
        /\ procs[p].pc = "done" /\ procs[p].op = "cancel"
        /\ procs[p].result = "not-owner"
        /\ procs[p].req \in DOMAIN requests
        /\ requests[procs[p].req].status = "pending"
        /\ requests[procs[p].req].employee_id # procs[p].employeeId

\* C19: a request created by createHistoricLeaveRequest is approved in every
\* committed state, and its calls have added the days its breakdown books on
\* each bucket to that row's used_days and changed nothing else: pending_days
\* and entitled_days are as they were, and the unpaid entry touches no row
\* (SpecSeq).
C19_HistoricGoesStraightToUsed ==
    \A r \in DOMAIN requests :
        requests[r].is_historic
        => /\ requests[r].status = "approved"
           /\ \A k \in Keys :
                 own[r][k] = Moved(0, IF k[1] = requests[r].employee_id
                                      THEN StoredDays(requests[r], k[2]) ELSE 0)

\* A historic request with a paid and an unpaid entry was imported.
C19_Witness ==
    \E r \in DOMAIN requests :
        /\ requests[r].is_historic
        /\ requests[r].unpaid_days > 0
        /\ \E k \in Keys : own[r][k].used_days > 0

\* C20: when removeEntitlement reads a row whose entitled_days minus the
\* removed days is below used_days + pending_days, or below zero, the call ends
\* with an error at that employee: the row is as it was when the call started,
\* no table changes in that step, and the call has written no log row for that
\* employee (SpecAdmin).
C20_RemoveBelowFloorRefused ==
    [][\A p \in SeqProcs :
          (/\ procs[p].op = "remove" /\ procs[p].pc = "entitle"
           /\ procs'[p] # procs[p])
          => LET k == CurKey(procs[p])
                 row == balances[k]
                 newEntitled == row.entitled_days - procs[p].totalDays
             IN  IF newEntitled < row.used_days + row.pending_days \/ newEntitled < 0
                 THEN /\ procs'[p].pc = "done"
                      /\ procs'[p].result \in {"floor-violation", "below-zero"}
                      /\ balances' = balances
                      /\ logs' = logs
                      /\ balances'[k] = RowOf(pre.balances, k)
                      /\ \A j \in (Len(pre.logs) + 1)..Len(logs') :
                            logs'[j].employee_id # k[1]
                 ELSE /\ procs'[p].pc # "done"
                      /\ balances'[k] = [row EXCEPT !.entitled_days = newEntitled]]_vars

\* The removal went through for the first employee of the list and was refused
\* for the second, who has days pending.
C20_Witness ==
    \E p \in SeqProcs :
        /\ procs[p].pc = "done" /\ procs[p].op = "remove"
        /\ procs[p].result = "floor-violation"
        /\ procs[p].idx = 2
        /\ Len(logs) > 0
        /\ logs[Len(logs)].employee_id = "e2"
        /\ \E r \in DOMAIN requests : requests[r].status = "pending"

\* Saturday or Sunday, for a day counted from a Sunday.
Weekend(d) == d % 7 = 0 \/ d % 7 = 6

NotAfter(a, b) ==
    \/ a.year < b.year
    \/ a.year = b.year /\ a.month < b.month
    \/ a.year = b.year /\ a.month = b.month /\ a.date <= b.date

\* The anniversaries of joinDate reached on the day of now.
FullYears(joinDate, now) ==
    Cardinality({n \in 1..(MaxTenure + 2) :
                    NotAfter([year |-> joinDate.year + n, month |-> joinDate.month,
                              date |-> joinDate.date], now)})

Tier(fullYears) == IF fullYears >= 5 THEN 18 ELSE IF fullYears >= 2 THEN 14 ELSE 7

PlusMonths(d, months) ==
    LET y == d.year + (d.month + months) \div 12
        m == (d.month + months) % 12
    IN  [year |-> y, month |-> m, date |-> Min(d.date, DaysInMonth(y, m))]

\* The calendar months from the month of date d through December of year.
MonthsThroughDecember(d, year) ==
    Cardinality({ym \in (d.year..year) \X (0..11) : ym[1] > d.year \/ ym[2] >= d.month})

\* C28: calculateProRataEntitlement returns 0 when the probation end (join
\* date plus probationMonths) is after 31 December of the current year, and
\* otherwise defaultDays * m / 12 rounded to the nearest half day, m being the
\* months from the probation-end month through December.  (The result is
\* held in half days.)
C28_ProRataByRemainingMonths ==
    probe.fn = "calculateProRataEntitlement" =>
        LET probationEnd == PlusMonths(probe.joinDate, probe.probationMonths)
            m == MonthsThroughDecember(probationEnd, probe.year)
        IN  IF ~NotAfter(probationEnd, [year |-> probe.year, month |-> 11, date |-> 31])
            THEN probe.result = 0
            ELSE /\ 6 * probe.result - probe.defaultDays * m <= 3
                 /\ probe.defaultDays * m - 6 * probe.result <= 3

\* C21: a rebalanceAllEntitlements call that follows another one directly (same
\* clock, no call between them) changes no balance row, appends no
\* entitlement-log row and returns an empty changes list (SpecRebalance).
C21_RebalanceIsIdempotent ==
    [][\A p \in SeqProcs :
          (procs[p].op = "rebalance" /\ procs[p].phase = "again" /\ Running(p))
          => /\ balances' = balances
             /\ logs' = logs
             /\ procs'[p].pc = "done" => procs'[p].result = "no-changes"]_vars

\* The second of two rebalance calls is at its last bucket; the first changed
\* three buckets.
C21_Witness ==
    \E p \in SeqProcs :
        /\ procs[p].op = "rebalance" /\ procs[p].phase = "again"
        /\ procs[p].pc = "rebalance"
        /\ procs[p].idx = Len(procs[p].items)
        /\ procs[p].totalDays = 0
        /\ Len(logs) >= 3

\* The policy values on the day of the rebalance: the employee on probation
\* until next year gets nothing yet, the one with three full years of service
\* 14 days of vacation and 3 Flex days.
PolicyDays ==
    (<<"e1", "lt1">> :> 0) @@ (<<"e1", "lt3">> :> 0)
    @@ (<<"e2", "lt1">> :> 14) @@ (<<"e2", "lt3">> :> 3)

C29_FieldsNonNegative ==
    \A k \in DOMAIN balances :
        /\ balances[k].entitled_days >= 0
        /\ balances[k].used_days >= 0
        /\ balances[k].pending_days >= 0

\* The days_added of the log rows of balance row k, over the first n rows.
RECURSIVE LoggedDays(_, _, _)
LoggedDays(rows, n, k) ==
    IF n = 0 THEN 0
    ELSE (IF rows[n].employee_id = k[1] /\ rows[n].leave_type_id = k[2]
          THEN rows[n].days_added ELSE 0)
         + LoggedDays(rows, n - 1, k)

\* C23: the entitlement log is a complete append-only audit: no step changes
\* or removes a log row, and once the addEntitlement, removeEntitlement and
\* rebalanceAllEntitlements calls made have returned, every balance row's
\* entitled_days is the value it was created with plus the days_added of its
\* log rows (SpecEntitle).
C23_LogAuditsEntitled ==
    [][/\ Len(logs') >= Len(logs)
       /\ SubSeq(logs', 1, Len(logs)) = logs
       /\ (\A p \in Procs : procs'[p].pc \in {"idle", "done"})
          => \A k \in DOMAIN balances' :
                balances'[k].entitled_days
                   = NewBalance(k[2]).entitled_days + LoggedDays(logs', Len(logs'), k)]_vars

\* The days a request reserves on leave type t: total_days on its own type
\* for a single-type request, the paid breakdown entries of that type for a
\* multi-type one.
Reserved(request, t) ==
    IF request.is_multi_type THEN StoredDays(request, t)
    ELSE IF request.leave_type_id = t THEN request.total_days
    ELSE 0

RECURSIVE ReservedBy(_, _)
ReservedBy(ids, k) ==
    IF ids = {} THEN 0
    ELSE LET r == CHOOSE x \in ids : TRUE
         IN  (IF requests[r].status = "pending" /\ requests[r].employee_id = k[1]
              THEN Reserved(requests[r], k[2]) ELSE 0)
             + ReservedBy(ids \ {r}, k)

C25_InvalidRangeRefused ==
    [][\A p \in SeqProcs :
          (/\ calls' # calls
           /\ procs'[p] # procs[p]
           /\ probe'.fn \in {"POST /apply", "POST /apply-behalf"}
           /\ probe'.startDate >= SpanToday
           /\ \A d \in probe'.startDate..probe'.endDate : Weekend(d))
          => /\ procs'[p].pc = "done"
             /\ procs'[p].result = "invalid-range"
             /\ requests' = requests
             /\ balances' = balances
             /\ nextId' = nextId]_vars

\* The status a request is committed in once the call of that kind returned.
StatusAfter(kind) ==
    CASE kind = "create" -> "pending"
      [] kind = "approve" -> "approved"
      [] kind = "reject" -> "rejected"
      [] kind = "cancel" -> "cancelled"

\* C24: a notification is dispatched only when the call it reports has
\* returned without an error and its request is committed in the status of
\* that transition, so never for a call that failed; and when a send fails,
\* the request rows, the balance rows and what the calls returned stay what
\* they were.
C24_NotifiedAfterCommit ==
    [][ /\ Len(outbox') > Len(outbox) =>
             LET n == outbox'[Len(outbox')]
             IN  /\ n.req \in DOMAIN requests
                 /\ requests[n.req].status = StatusAfter(n.kind)
                 /\ \E p \in Procs : /\ procs[p].pc = "done"
                                     /\ procs[p].op = n.kind
                                     /\ procs[p].req = n.req
                                     /\ procs[p].result = "ok"
                 /\ pre = NoSnap
                 /\ requests' = requests /\ balances' = balances
        /\ (\E i \in DOMAIN outbox : /\ i \in DOMAIN outbox'
                                     /\ outbox[i].state = "sending"
                                     /\ outbox'[i].state = "failed") =>
             /\ requests' = requests
             /\ balances' = balances
             /\ procs' = procs
      ]_vars

\* An approval was committed, its notification failed, and the request is
\* still approved and the call still successful; a createLeaveRequest that
\* failed after its insert was never notified.
C24_Witness ==
    /\ \E i \in DOMAIN outbox :
          /\ outbox[i].kind = "approve" /\ outbox[i].state = "failed"
          /\ requests[outbox[i].req].status = "approved"
          /\ procs["h1"].pc = "done" /\ procs["h1"].op = "approve"
          /\ procs["h1"].req = outbox[i].req /\ procs["h1"].result = "ok"
    /\ \E r \in DOMAIN requests :
          \A j \in DOMAIN outbox : ~(outbox[j].kind = "create" /\ outbox[j].req = r)

C32_UsedNeverDecreases ==
    [][\A k \in DOMAIN balances :
          /\ k \in DOMAIN balances'
          /\ balances'[k].used_days >= balances[k].used_days]_vars

\* C33: after every step a request has an approver exactly when its status
\* is approved or rejected; the step that takes a request from pending to
\* approved or rejected records the approver and the remarks with it, the
\* step that cancels it records no approver; and a request that is approved,
\* rejected or cancelled keeps its status, approved_by and admin_remarks.
C33_ApproverIffDecided ==
    [][/\ \A r \in DOMAIN requests' :
             requests'[r].approved_by # NULL
               <=> requests'[r].status \in {"approved", "rejected"}
       /\ \A r \in DOMAIN requests :
             /\ r \in DOMAIN requests'
             /\ requests[r].status \in Terminal
                => /\ requests'[r].status = requests[r].status
                   /\ requests'[r].approved_by = requests[r].approved_by
                   /\ requests'[r].admin_remarks = requests[r].admin_remarks
             /\ (requests[r].status = "pending" /\ requests'[r].status # "pending")
                => IF requests'[r].status = "cancelled"
                   THEN /\ requests'[r].approved_by = NULL
                        /\ requests'[r].admin_remarks = requests[r].admin_remarks
                   ELSE /\ requests'[r].approved_by \in Admins
                        /\ requests'[r].admin_remarks # NULL]_vars

\* C34: an approveLeaveRequest, rejectLeaveRequest or cancelLeaveRequest call
\* with the id of no request ends at once with the not-found error, and in
\* that step no request row and no balance row is changed or created
\* (SpecSeq).
C34_UnknownRequestNotFound ==
    [][\A p \in SeqProcs :
          (/\ calls' # calls /\ procs'[p].op \in Decisions
           /\ procs'[p].req \notin DOMAIN requests)
          => /\ procs'[p].pc = "done"
             /\ procs'[p].result = "not-found"
             /\ requests' = requests
             /\ balances' = balances
             /\ nextId' = nextId]_vars

\* A cancel with the id of no request was refused while another request and
\* its balance row exist.
C34_Witness ==
    \E p \in SeqProcs :
        /\ procs[p].pc = "done" /\ procs[p].op = "cancel"
        /\ procs[p].result = "not-found"
        /\ procs[p].req \notin DOMAIN requests
        /\ \E r \in DOMAIN requests :
              /\ requests[r].status = "pending"
              /\ <<requests[r].employee_id, requests[r].leave_type_id>> \in DOMAIN balances

\* C35: in the plan for a cascading primary type the first entry, and no
\* other, is the primary type's; it has days 0 and the noBalance flag when the
\* primary bucket's available days are not positive, and positive days and no
\* flag otherwise; a later candidate whose available days are not positive
\* has no entry; and hasOverflow is true exactly when the breakdown has more
\* than one entry or unpaidDays > 0 (SpecPlan).
C35_PrimaryAlwaysListed ==
    \A form \in held :
        Cascading(form)
        => LET plan == form.plan
               e == form.employeeId
               available == getAvailableDays(balances[<<e, form.leaveTypeId>>])
               ofPrimary == {i \in PaidEntries(plan) :
                               plan.breakdown[i].leaveTypeId = form.leaveTypeId}
           IN  /\ ofPrimary = {1}
               /\ plan.breakdown[1].isPrimary
               /\ IF available <= 0
                  THEN /\ plan.breakdown[1].days = 0
                       /\ plan.breakdown[1].noBalance
                  ELSE /\ plan.breakdown[1].days > 0
                       /\ ~plan.breakdown[1].noBalance
               /\ \A t \in TypeIds \ {form.leaveTypeId} :
                     getAvailableDays(balances[<<e, t>>]) <= 0
                     => \A i \in PaidEntries(plan) : plan.breakdown[i].leaveTypeId # t
               /\ plan.hasOverflow <=> (Len(plan.breakdown) > 1 \/ plan.unpaidDays > 0)

\* A plan whose primary bucket is overdrawn and whose next candidate is empty:
\* the primary type is listed with 0 days, the empty candidate is not, a later
\* candidate pays, and hasOverflow is set without unpaid days.
C35_Witness ==
    \E form \in held :
        /\ Cascading(form)
        /\ getAvailableDays(balances[<<form.employeeId, form.leaveTypeId>>]) < 0
        /\ form.plan.breakdown[1].noBalance
        /\ Len(form.plan.breakdown) = 2
        /\ form.plan.unpaidDays = 0
        /\ form.plan.hasOverflow
        /\ \E t \in TypeIds \ {form.leaveTypeId} :
              /\ PlaceIn(CascadeOrder(form.leaveTypeId), t) > 0
              /\ getAvailableDays(balances[<<form.employeeId, t>>]) <= 0
              /\ Taken(form.plan, form.plan.breakdown[2].leaveTypeId) > 0
              /\ PlaceIn(CascadeOrder(form.leaveTypeId), t)
                   < PlaceIn(CascadeOrder(form.leaveTypeId), form.plan.breakdown[2].leaveTypeId)

\* The handler is inside a call that has opened a transaction.
InTransaction(p) == Running(p) /\ inTransaction(procs[p].op)

\* C36: a handler that has returned or thrown holds no transaction (none of
\* its writes is pending and none of its row locks is left), and every call
\* that opened a transaction comes to its end, whether it commits or fails
\* (SpecTx).
C36_TransactionsEnd ==
    /\ [](\A p \in Procs : ~Running(p) => procs[p].txb = <<>> /\ procs[p].txr = <<>>)
    /\ \A p \in Procs : InTransaction(p) ~> ~Running(p)

\* A transaction was chosen as the victim of a deadlock and rolled back, and
\* the other one has committed.
C36_Witness ==
    \E p \in Procs, q \in Procs :
        /\ procs[p].pc = "done" /\ procs[p].result = "deadlock"
        /\ procs[q].pc = "done" /\ procs[q].result = "ok" /\ procs[q].op = "smart"
        /\ procs[q].req \in DOMAIN requests
        /\ procs[p].req \notin DOMAIN requests

\* C37: when a removeEntitlement call is refused at an employee of its list,
\* the employees listed before that one have entitled_days reduced by the
\* days and one log row each, in list order, and they keep both; the
\* employee at which the call failed and the employees listed after have the
\* rows they had when the call started and no log row, and no row is created
\* for the employees after; no other row changes (SpecAdmin).
C37_RemoveStopsAtFirstRefusal ==
    [][\A p \in SeqProcs :
          (/\ Running(p) /\ procs[p].op = "remove"
           /\ procs'[p].pc = "done"
           /\ procs'[p].result \in {"floor-violation", "below-zero"})
          => LET pr == procs[p]
                 ids == pr.employeeIds
                 t == pr.leaveTypeId
                 before(k) == RowOf(pre.balances, k)
             IN  /\ \A j \in 1..(pr.idx - 1) :
                       RowOf(balances', <<ids[j], t>>)
                         = [before(<<ids[j], t>>) EXCEPT
                               !.entitled_days = @ - pr.totalDays]
                 /\ \A j \in pr.idx..Len(ids) :
                       RowOf(balances', <<ids[j], t>>) = before(<<ids[j], t>>)
                 /\ \A j \in (pr.idx + 1)..Len(ids) :
                       <<ids[j], t>> \in DOMAIN balances'
                         <=> <<ids[j], t>> \in DOMAIN pre.balances
                 /\ \A k \in Keys :
                       (k[2] # t \/ \A j \in 1..Len(ids) : ids[j] # k[1])
                       => /\ RowOf(balances', k) = before(k)
                          /\ k \in DOMAIN balances' <=> k \in DOMAIN pre.balances
                 /\ logs' = pre.logs \o
                              [j \in 1..(pr.idx - 1) |->
                                  [employee_id |-> ids[j], leave_type_id |-> t,
                                   days_added |-> 0 - pr.totalDays,
                                   created_by |-> pr.by]]
                 /\ requests' = pre.requests]_vars

\* A removal over two employees was refused at the second: the first one's
\* entitlement is reduced and logged, the second one's row is as it was.
C37_Witness ==
    \E p \in SeqProcs :
        /\ procs[p].pc = "done" /\ procs[p].op = "remove"
        /\ procs[p].result = "floor-violation" /\ procs[p].idx = 2
        /\ logs # <<>>
        /\ LET last == logs[Len(logs)]
               first == <<last.employee_id, last.leave_type_id>>
           IN  /\ last.employee_id = "e2" /\ last.days_added < 0
               /\ first \in DOMAIN balances
               /\ balances[first].entitled_days
                    = findLeaveType(last.leave_type_id).default_days + last.days_added
               /\ <<"e1", last.leave_type_id>> \in DOMAIN balances
               /\ balances[<<"e1", last.leave_type_id>>].pending_days > 0

\* C38: in rebalanceAllEntitlements an employee's error is appended to
\* results.errors and the pass goes on with the next employee's first bucket
\* (or returns, after the last employee); every other step leaves errors
\* alone and counts an employee in processed exactly when it closes that
\* employee's last bucket; a pass that has returned has handled every active
\* employee: each one is either in errors, once, or counted in processed, and
\* the counted ones have a balance row in every rebalanced bucket
\* (SpecEntitle).
FailsHere(p) ==
    /\ procs[p].op = "rebalance" /\ procs[p].pc = "newbal"
    /\ CurKey(procs[p]) \in DOMAIN balances

InErrors(pr) == {pr.errors[i] : i \in 1..Len(pr.errors)}

C38_RebalanceRecordsErrorAndGoesOn ==
    /\ [][\A p \in Procs :
             (procs[p].op = "rebalance" /\ Running(p) /\ procs'[p] # procs[p])
             => LET pr == procs[p]
                    nx == procs'[p]
                IN  IF FailsHere(p)
                    THEN /\ nx.errors = Append(pr.errors, pr.owner)
                         /\ nx.processed = pr.processed
                         /\ IF nextEmployee(pr) = 0 THEN nx.pc = "done"
                            ELSE /\ nx.pc = "find"
                                 /\ nx.idx = nextEmployee(pr)
                                 /\ nx.owner = pr.employeeIds[nextEmployee(pr)]
                                 /\ nx.owner # pr.owner
                    ELSE /\ nx.errors = pr.errors
                         /\ nx.processed =
                              IF nx.pc = "done" \/ nx.owner # pr.owner
                              THEN pr.processed + 1 ELSE pr.processed]_vars
    /\ [](\A p \in Procs :
             (procs[p].op = "rebalance" /\ procs[p].pc = "done")
             => LET pr == procs[p]
                    active == {EmployeeRows[i].id : i \in 1..Len(EmployeeRows)}
                IN  /\ InErrors(pr) \subseteq active
                    /\ Cardinality(InErrors(pr)) = Len(pr.errors)
                    /\ pr.processed = Cardinality(active \ InErrors(pr))
                    /\ \A e \in active \ InErrors(pr) :
                          \A i \in 1..Len(RebalancedTypes) :
                             <<e, RebalancedTypes[i]>> \in DOMAIN balances)

\* A pass has returned with the first employee in errors and the second,
\* handled after that error, counted in processed.
C38_Witness ==
    \E p \in Procs :
        /\ procs[p].op = "rebalance" /\ procs[p].pc = "done"
        /\ procs[p].errors = <<EmployeeRows[1].id>>
        /\ procs[p].processed = 1
        /\ \E i \in 1..Len(logs) : logs[i].employee_id = EmployeeRows[2].id
        /\ \A q \in Procs \ {p} : procs[q].op # "rebalance"

\* C39: for every join date, in the current year or in an earlier one, and
\* every defaultDays >= 0, the result of calculateProRataEntitlement lies
\* between 0 and defaultDays inclusive.  (The result is held in half days.)
C39_ProRataWithinFullYear ==
    probe.fn = "calculateProRataEntitlement" =>
        /\ probe.result >= 0
        /\ probe.result <= 2 * probe.defaultDays

\* What holds instead: the result is within the full-year entitlement when the
\* probation ends in the current year or later, and never negative.
ProRataWithinFullYearFromThisYear ==
    probe.fn = "calculateProRataEntitlement" =>
        /\ probe.result >= 0
        /\ PlusMonths(probe.joinDate, probe.probationMonths).year >= probe.year
           => probe.result <= 2 * probe.defaultDays

====
